---- MODULE Spec2Model ----
(***************************************************************************)
(* tail_exporter: line sources call TailCollector.IngestLine, which fans   *)
(* each line out to one lineProcessor goroutine per configured rule; each  *)
(* lineProcessor matches, derives labels and a value, and creates or       *)
(* updates a metricValue in the shared hashmap, which Collect exports.     *)
(*                                                                         *)
(* Abstractions.                                                           *)
(*  - A line is the outcome the PCRE matcher gives for it: the set of      *)
(*    patterns that match it and the text of each capture group (Absent    *)
(*    when the group did not participate).                                 *)
(*  - A float64 is an integer or NaN.                                      *)
(*  - The SHA-256 of the descriptor string is the string itself: the     *)
(*    digest is taken as collision-free.  Names, help texts and label      *)
(*    values hold no quote, backslash or control character, and names are  *)
(*    valid metric and label names.                                        *)
(*  - A pointer is the index of an object in heap.  The hashmap is handed  *)
(*    the address of the local variable metric; the model takes the stored *)
(*    pointer to designate the metricValue that variable points to.        *)
(*  - lineProcessor calls newMetricValue without the timeout parameter its *)
(*    definition takes; the model passes the rule's Timeout.  SpecBuild    *)
(*    also runs the program in which the call stands as written, no        *)
(*    timeout reaching the metricValue.                                    *)
(*  - Steps of one goroutine that touch no shared memory are one action;   *)
(*    every read and every write of the hashmap or of a stored metricValue *)
(*    is an action of its own, since no lock is held around them.          *)
(*                                                                         *)
(* Spec runs two line sources against the rule workers, any of which may   *)
(* get stuck in its matcher.  SpecTime runs one source with the clock and  *)
(* the exporter.  SpecOps runs one source on the rule sets that exercise   *)
(* the operations and the identities, SpecExport adds the exporter to it.  *)
(* SpecLive and SpecFair state the scheduler's fairness, for one and for   *)
(* two sources.  SpecStartup starts at main(), before the configuration    *)
(* file is read.  SpecBadOp and SpecTwice run SpecOps' steps on a rule     *)
(* with an operation that is no ValueOp constant and on a rule whose label *)
(* specs share a name.  SpecCodec decodes one scalar of the configuration, *)
(* marshals the definition and decodes the result; a scalar is a sequence  *)
(* of characters, and a string field written back is one element of it.    *)
(***************************************************************************)
EXTENDS Integers, Sequences, FiniteSets, TLC

\* ------------------------------------------------------------------ bounds
MaxLines == 2      \* IngestLine calls in a behaviour (one more in the last scenario)
MaxTime == 2       \* clock ticks in a behaviour
MaxScalar == 3     \* characters in a configuration scalar put through the conversions

\* ------------------------------------------------------- program constants
ChanCap == 1       \* make(chan string, 1)

\* The line sources: a tailed file and a TCP connection
Sources == {"tail", "tcp"}

\* ------------------------------------------------------------------ floats
NaN == [nan |-> TRUE, n |-> 0]
F(k) == [nan |-> FALSE, n |-> k]
FAdd(a, b) == IF a.nan \/ b.nan THEN NaN ELSE F(a.n + b.n)
FSub(a, b) == IF a.nan \/ b.nan THEN NaN ELSE F(a.n - b.n)
FNeg(a) == (~a.nan) /\ a.n < 0      \* a < 0, false for NaN

\* A nil pointer
Nil == [nil |-> TRUE]

\* ------------------------------------------------------------- the matcher
Absent == "<absent>"
\* Capture groups of the patterns: group 1 is (?P<code>..), group 2 is
\* (?P<amount>..).
GroupIndex(name) == IF name = "code" THEN 1 ELSE 2

\* Matcher.GroupString: the text of a group, "" when it did not participate.
GroupString(line, i) == IF line.g[i] = Absent THEN "" ELSE line.g[i]
\* Matcher.NamedPresent / NamedString.
NamedPresent(line, name) == line.g[GroupIndex(name)] # Absent
NamedString(line, name) == GroupString(line, GroupIndex(name))

\* strconv.ParseFloat(s, 64): the value and whether err # nil; a syntax
\* error returns 0.
ParseFloat(s) ==
    CASE s = "1" -> [val |-> F(1), err |-> FALSE]
      [] s = "2" -> [val |-> F(2), err |-> FALSE]
      [] s = "-3" -> [val |-> F(-3), err |-> FALSE]
      [] OTHER -> [val |-> F(0), err |-> TRUE]

\* ------------------------------------------------------------ config types
MetricUntyped == "untyped"
MetricGauge == "gauge"
MetricCounter == "counter"

ValueOpAdd == "add"
ValueOpSubtract == "subtract"
ValueOpEquals == "equals"

ValueSourceLiteral == "literal"
ValueSourceCaptureGroup == "group"
ValueSourceNamedCaptureGroup == "named"

LabelValueLiteral == "literal"
LabelValueCaptureGroup == "group"
LabelValueCaptureGroupNamed == "named"

\* LabelValueDef as LabelValueDef.UnmarshalYAML builds it.
LvLiteral(s) == [FieldType |-> LabelValueLiteral, Literal |-> s,
                 CaptureGroup |-> 0, CaptureGroupName |-> ""]
LvGroup(i) == [FieldType |-> LabelValueCaptureGroup, Literal |-> "",
               CaptureGroup |-> i, CaptureGroupName |-> ""]
LvNamed(n) == [FieldType |-> LabelValueCaptureGroupNamed, Literal |-> "",
               CaptureGroup |-> 0, CaptureGroupName |-> n]

\* LabelDef: Default / HasDefault come from the optional "default" key.
LabelDef(name, value, hasDefault, default) ==
    [Name |-> name, Value |-> value, HasDefault |-> hasDefault, Default |-> default]

\* ValueDef as ValueDef.UnmarshalYAML builds it.
VdLiteral(op, k) == [ValueOp |-> op, ValueSource |-> ValueSourceLiteral,
                     Literal |-> F(k), CaptureGroup |-> 0, CaptureGroupName |-> ""]
VdGroup(op, i) == [ValueOp |-> op, ValueSource |-> ValueSourceCaptureGroup,
                   Literal |-> F(0), CaptureGroup |-> i, CaptureGroupName |-> ""]
VdNamed(op, n) == [ValueOp |-> op, ValueSource |-> ValueSourceNamedCaptureGroup,
                   Literal |-> F(0), CaptureGroup |-> 0, CaptureGroupName |-> n]

\* MetricParser.
MetricParser(name, type, help, regex, labels, value, timeout) ==
    [Name |-> name, Type |-> type, Help |-> help, Regex |-> regex,
     Labels |-> labels, Value |-> value, Timeout |-> timeout]

\* ------------------------------------------------------ the config loader
\* A scalar of the YAML file that the loader takes apart is a sequence of
\* characters; Str is the string they make.
RECURSIVE Str(_)
Str(cs) == IF cs = <<>> THEN "" ELSE Head(cs) \o Str(Tail(cs))

\* strings.Trim(s, "$")
RECURSIVE TrimLeft(_)
TrimLeft(cs) == IF cs # <<>> /\ Head(cs) = "$" THEN TrimLeft(Tail(cs)) ELSE cs
RECURSIVE TrimRight(_)
TrimRight(cs) ==
    IF cs # <<>> /\ cs[Len(cs)] = "$" THEN TrimRight(SubSeq(cs, 1, Len(cs) - 1)) ELSE cs
Trim(cs) == TrimRight(TrimLeft(cs))

\* A decimal numeral: an optional sign and one digit at least
DigitValue(c) ==
    CASE c = "0" -> 0 [] c = "1" -> 1 [] c = "2" -> 2 [] c = "3" -> 3 [] c = "4" -> 4
      [] c = "5" -> 5 [] c = "6" -> 6 [] c = "7" -> 7 [] c = "8" -> 8 [] c = "9" -> 9
IsDigit(c) == c \in {"0", "1", "2", "3", "4", "5", "6", "7", "8", "9"}
RECURSIVE DecimalValue(_, _)
DecimalValue(cs, acc) ==
    IF cs = <<>> THEN acc ELSE DecimalValue(Tail(cs), 10 * acc + DigitValue(Head(cs)))
ParseDecimal(cs) ==
    LET signed == cs # <<>> /\ Head(cs) \in {"+", "-"}
        body == IF signed THEN Tail(cs) ELSE cs
    IN IF body = <<>> \/ \E i \in 1..Len(body) : ~IsDigit(body[i])
       THEN [val |-> 0, err |-> TRUE]
       ELSE [val |-> IF Head(cs) = "-" THEN 0 - DecimalValue(body, 0)
                     ELSE DecimalValue(body, 0),
             err |-> FALSE]

\* strconv.ParseInt(s, 10, _), for numerals within the bit size
ParseInt(cs) == ParseDecimal(cs)

\* strconv.ParseFloat(s, 64) on the text of a configuration scalar made of
\* signs, digits and letters other than those of a fraction, an exponent,
\* "inf", "nan" or a hexadecimal mantissa: a decimal numeral or a syntax error
ParseFloatScalar(cs) ==
    LET r == ParseDecimal(cs) IN [val |-> F(r.val), err |-> r.err]

\* MetricType.UnmarshalYAML
MetricTypeUnmarshal(s) ==
    CASE s = "gauge" -> MetricGauge
      [] s = "counter" -> MetricCounter
      [] OTHER -> MetricUntyped

\* LabelValueDef.UnmarshalYAML
LabelValueDefUnmarshal(cs) ==
    IF cs # <<>> /\ Head(cs) = "$"
    THEN LET str == Trim(cs)
             r == ParseInt(str)
         IN IF r.err THEN LvNamed(Str(str)) ELSE LvGroup(r.val)
    ELSE LvLiteral(Str(cs))

\* LabelDef.UnmarshalYAML: Default and HasDefault are read from the map
\* "optional", an unexported field, which the decoder does not fill.
LabelDefUnmarshal(raw) ==
    LabelDef(LabelValueDefUnmarshal(raw.name), LabelValueDefUnmarshal(raw.value),
             FALSE, "")

\* ValueDef.UnmarshalYAML: the definition, or an error, or the panic of an
\* index out of range
ValueOpOf(c) ==
    CASE c = "+" -> ValueOpAdd
      [] c = "-" -> ValueOpSubtract
      [] c = "=" -> ValueOpEquals
ValueDefUnmarshal(cs) ==
    IF cs = <<>> THEN [def |-> Nil, err |-> FALSE, panic |-> TRUE]
    ELSE IF Head(cs) \notin {"+", "-", "="}
    THEN [def |-> Nil, err |-> TRUE, panic |-> FALSE]
    ELSE IF Len(cs) < 2 THEN [def |-> Nil, err |-> FALSE, panic |-> TRUE]
    ELSE IF cs[2] = "$"
    THEN LET rest == SubSeq(cs, 3, Len(cs))
             r == ParseInt(rest)
         IN [def |-> IF r.err THEN VdNamed(ValueOpOf(Head(cs)), Str(rest))
                     ELSE VdGroup(ValueOpOf(Head(cs)), r.val),
             err |-> FALSE, panic |-> FALSE]
    ELSE LET r == ParseFloatScalar(Tail(cs))
         IN IF r.err THEN [def |-> Nil, err |-> TRUE, panic |-> FALSE]
            ELSE [def |-> VdLiteral(ValueOpOf(Head(cs)), r.val.n),
                  err |-> FALSE, panic |-> FALSE]

\* parseFlags, on the flags as strings.Split(f, ",") gives them
KnownFlags ==
    {"anchored", "bsr-anycrlf", "bsr-unicode", "newline-is-any", "newline-is-anycrlf",
     "newline-is-cr", "newline-crlf", "newline-lf", "no-utf8-check", "caseless",
     "dollar-end-only", "dotall", "dupnames", "extended", "extra", "firstline",
     "javascript-compat", "multiline", "no-auto-capture", "ungreedy", "utf8"}
parseFlags(f) == [err |-> \E i \in 1..Len(f) : f[i] \notin KnownFlags]

\* pcre.Compile: the expressions that compile
ReadmeRegex == "^METRICS: uuid=(\\S+) result=(\\S+)"
Compilable == {"", "P", "Q", ReadmeRegex}

\* NewRegexp
NewRegexp(fr) ==
    IF parseFlags(fr.flags).err THEN [regex |-> "", err |-> TRUE]
    ELSE IF fr.regex \notin Compilable THEN [regex |-> "", err |-> TRUE]
    ELSE [regex |-> fr.regex, err |-> FALSE]

\* Regexp.UnmarshalYAML.  Decoding a mapping into flaggedRegex succeeds and
\* sets nothing, its fields "regex" and "flags" being unexported; decoding a
\* scalar into it fails, and the scalar is then taken as the expression.
RegexpUnmarshal(node) ==
    NewRegexp(IF node.kind = "map" THEN [regex |-> "", flags |-> <<>>]
              ELSE [regex |-> node.text, flags |-> <<>>])

\* model.Duration.UnmarshalYAML, in units of the model's clock; "" stands
\* for an omitted key
ParseDuration(s) ==
    CASE s = "" -> [val |-> 0, err |-> FALSE]
      [] s = "1m" -> [val |-> 1, err |-> FALSE]
      [] s = "15m" -> [val |-> 15, err |-> FALSE]
      [] OTHER -> [val |-> 0, err |-> TRUE]

\* MetricParser.UnmarshalYAML
MetricParserUnmarshal(raw) ==
    LET re == RegexpUnmarshal(raw.regex)
        vd == ValueDefUnmarshal(raw.value)
        to == ParseDuration(raw.timeout)
    IN IF vd.panic THEN [rule |-> Nil, err |-> FALSE, panic |-> TRUE]
       ELSE IF re.err \/ vd.err \/ to.err THEN [rule |-> Nil, err |-> TRUE, panic |-> FALSE]
       ELSE IF raw.help = "" THEN [rule |-> Nil, err |-> TRUE, panic |-> FALSE]
       ELSE [rule |-> MetricParser(raw.name, MetricTypeUnmarshal(raw.type), raw.help,
                                   re.regex,
                                   [i \in 1..Len(raw.labels) |->
                                       LabelDefUnmarshal(raw.labels[i])],
                                   vd.def, to.val),
             err |-> FALSE, panic |-> FALSE]

\* config.LoadFile / Load: yaml.Unmarshal of metric_configs
RECURSIVE LoadFrom(_, _, _)
LoadFrom(file, idx, rules) ==
    IF idx > Len(file) THEN [cfg |-> rules, err |-> FALSE, panic |-> FALSE]
    ELSE LET r == MetricParserUnmarshal(file[idx])
         IN IF r.panic \/ r.err THEN [cfg |-> <<>>, err |-> r.err, panic |-> r.panic]
            ELSE LoadFrom(file, idx + 1, Append(rules, r.rule))
LoadFile(file) == LoadFrom(file, 1, <<>>)

\* ------------------------------------------------- marshalling the config
\* fmt.Sprintf("%d", n); %v of a float64 that holds an integer prints the
\* same digits
RECURSIVE FormatNat(_)
FormatNat(n) ==
    LET d == n % 10
        c == CASE d = 0 -> "0" [] d = 1 -> "1" [] d = 2 -> "2" [] d = 3 -> "3"
               [] d = 4 -> "4" [] d = 5 -> "5" [] d = 6 -> "6" [] d = 7 -> "7"
               [] d = 8 -> "8" [] d = 9 -> "9"
    IN IF n < 10 THEN <<c>> ELSE Append(FormatNat(n \div 10), c)
FormatInt(n) == IF n < 0 THEN <<"-">> \o FormatNat(0 - n) ELSE FormatNat(n)

\* A string field written out: its text, kept in one piece
Text(str) == IF str = "" THEN <<>> ELSE <<str>>

\* ValueDef.MarshalYAML
ValueDefMarshal(def) ==
    IF def.ValueOp \notin {ValueOpAdd, ValueOpSubtract, ValueOpEquals}
       \/ def.ValueSource \notin {ValueSourceLiteral, ValueSourceCaptureGroup,
                                  ValueSourceNamedCaptureGroup}
    THEN [text |-> <<>>, err |-> TRUE]
    ELSE LET op == CASE def.ValueOp = ValueOpAdd -> "+"
                     [] def.ValueOp = ValueOpSubtract -> "-"
                     [] def.ValueOp = ValueOpEquals -> "="
         IN [text |-> CASE def.ValueSource = ValueSourceLiteral ->
                             <<op>> \o FormatInt(def.Literal.n)
                        [] def.ValueSource = ValueSourceCaptureGroup ->
                             <<op, "$">> \o FormatInt(def.CaptureGroup)
                        [] def.ValueSource = ValueSourceNamedCaptureGroup ->
                             <<op, "$">> \o Text(def.CaptureGroupName),
             err |-> FALSE]

\* LabelValueDef.MarshalYAML
LabelValueDefMarshal(def) ==
    IF def.FieldType = LabelValueCaptureGroup
    THEN [text |-> <<"$">> \o FormatInt(def.CaptureGroup), err |-> FALSE]
    ELSE [text |-> Text(def.Literal), err |-> FALSE]

\* The value grammar of config/config.go
VALUE_LITERAL == "VALUE_LITERAL"
VALUE_CAPTUREGROUP == "VALUE_CAPTUREGROUP"
VALUE_CAPTUREGROUP_NAMED == "VALUE_CAPTUREGROUP_NAMED"
VALUE_INC == "VALUE_INC"
VALUE_DEC == "VALUE_DEC"
VALUE_ADD == "VALUE_ADD"
VALUE_SUB == "VALUE_SUB"
ValueDefOf(fieldType) ==
    [FieldType |-> fieldType, Literal |-> F(0), CaptureGroup |-> 0, CaptureGroupName |-> ""]

\* ValueDef.UnmarshalYAML of config/config.go: a literal that does not parse
\* returns nil with the zero Literal
ConfigValueDefUnmarshal(cs) ==
    LET str == Str(cs)
    IN IF cs # <<>> /\ Head(cs) = "$"
       THEN LET r == ParseInt(Trim(cs))
            IN [def |-> IF r.err
                        THEN [ValueDefOf(VALUE_CAPTUREGROUP_NAMED)
                                 EXCEPT !.CaptureGroupName = Str(Trim(cs))]
                        ELSE [ValueDefOf(VALUE_CAPTUREGROUP) EXCEPT !.CaptureGroup = r.val],
                err |-> FALSE, panic |-> FALSE]
       ELSE [def |-> CASE str = "increment" -> ValueDefOf(VALUE_INC)
                       [] str = "decrement" -> ValueDefOf(VALUE_DEC)
                       [] str = "add" -> ValueDefOf(VALUE_ADD)
                       [] str = "subtract" -> ValueDefOf(VALUE_SUB)
                       [] OTHER -> [ValueDefOf(VALUE_LITERAL)
                                       EXCEPT !.Literal = ParseFloatScalar(cs).val],
             err |-> FALSE, panic |-> FALSE]

\* ValueDef.MarshalYAML of config/config.go; the float64 it returns for a
\* literal is written by the encoder as its digits
ConfigValueDefMarshal(def) ==
    CASE def.FieldType = VALUE_CAPTUREGROUP ->
           [text |-> <<"$">> \o FormatInt(def.CaptureGroup), err |-> FALSE]
      [] def.FieldType = VALUE_INC -> [text |-> <<"increment">>, err |-> FALSE]
      [] def.FieldType = VALUE_SUB -> [text |-> <<"decrement">>, err |-> FALSE]
      [] OTHER -> [text |-> FormatInt(def.Literal.n), err |-> FALSE]

\* The conversions of a scalar, by the type it is decoded into
Unmarshal(type, cs) ==
    CASE type = "ValueDef" -> ValueDefUnmarshal(cs)
      [] type = "LabelValueDef" ->
           [def |-> LabelValueDefUnmarshal(cs), err |-> FALSE, panic |-> FALSE]
      [] type = "config.ValueDef" -> ConfigValueDefUnmarshal(cs)
Marshal(type, def) ==
    CASE type = "ValueDef" -> ValueDefMarshal(def)
      [] type = "LabelValueDef" -> LabelValueDefMarshal(def)
      [] type = "config.ValueDef" -> ConfigValueDefMarshal(def)
ScalarTypes == {"ValueDef", "LabelValueDef", "config.ValueDef"}

\* The scalars put through the conversions: every text of MaxScalar
\* characters at most over the characters the grammars tell apart, and the
\* keywords of config/config.go
ScalarChars == {"+", "-", "=", "$", "0", "1", "x"}
RECURSIVE TextsOfLength(_)
TextsOfLength(n) ==
    IF n = 0 THEN {<<>>}
    ELSE {Append(t, c) : t \in TextsOfLength(n - 1), c \in ScalarChars}
Scalars ==
    UNION {TextsOfLength(n) : n \in 0..MaxScalar}
    \cup {<<"increment">>, <<"decrement">>, <<"add">>, <<"subtract">>}

\* No scalar is under conversion
NoScalar == [stage |-> "none"]

\* --------------------------------------------------------- the rule sets
\* Two rules that resolve the same series when group 1 participates: one by
\* name, one by position.
RuleByName ==
    MetricParser("m", MetricCounter, "h", "P",
                 <<LabelDef(LvLiteral("code"), LvNamed("code"), FALSE, "")>>,
                 VdLiteral(ValueOpAdd, 1), 0)
RuleByPos ==
    MetricParser("m", MetricCounter, "h", "P",
                 <<LabelDef(LvLiteral("code"), LvGroup(1), FALSE, "")>>,
                 VdLiteral(ValueOpAdd, 1), 1)
\* A gauge whose label declares a default and whose value is a positional
\* capture, and a counter set from a named capture.
RuleGauge ==
    MetricParser("g", MetricGauge, "h", "P",
                 <<LabelDef(LvLiteral("code"), LvNamed("code"), TRUE, "none")>>,
                 VdGroup(ValueOpEquals, 2), 1)
RuleSet ==
    MetricParser("c", MetricCounter, "h", "Q",
                 <<>>, VdNamed(ValueOpEquals, "amount"), 0)

\* The lines a source can deliver.
MkLine(pats, code, amount) == [pats |-> pats, g |-> <<code, amount>>]
LineFull == MkLine({"P", "Q"}, "ok", "2")          \* both groups took part
LineNoCode == MkLine({"P", "Q"}, Absent, "-3")     \* group 1 did not take part
LineBadAmount == MkLine({"P", "Q"}, "ok", "abc")   \* group 2 is not a number
LineNoAmount == MkLine({"P"}, "ok", Absent)        \* group 2 did not take part
LineNoMatch == MkLine({}, Absent, Absent)          \* no pattern matches

\* A rule set together with the lines fed to it and the number of
\* IngestLine calls made.  The last scenario feeds one more line, of a single
\* kind: enough for a call to find a channel full.
Scenarios ==
    {[rules |-> <<RuleByName, RuleByPos>>,
      lines |-> {LineFull, LineNoCode, LineNoMatch}, calls |-> MaxLines],
     [rules |-> <<RuleGauge, RuleSet>>,
      lines |-> {LineFull, LineNoCode, LineBadAmount, LineNoAmount}, calls |-> MaxLines],
     [rules |-> <<RuleSet, RuleGauge>>,
      lines |-> {LineFull}, calls |-> MaxLines + 1]}

\* The configuration files main may be started with.  RawCount is a rule
\* that counts the lines matching P; RawReadme is the example of the README.
RawCount ==
    [name |-> "n", type |-> "counter", help |-> "h",
     regex |-> [kind |-> "scalar", text |-> "P"],
     labels |-> <<>>, value |-> <<"+", "1">>, timeout |-> ""]
RawReadme ==
    [name |-> "exim_mail_count", type |-> "counter",
     help |-> "counter of mail processing results",
     regex |-> [kind |-> "scalar", text |-> ReadmeRegex],
     labels |-> <<[name |-> <<"u", "u", "i", "d">>, value |-> <<"$", "1">>],
                  [name |-> <<"r", "e", "s", "u", "l", "t">>, value |-> <<"$", "2">>]>>,
     value |-> <<"i", "n", "c", "r", "e", "m", "e", "n", "t">>,
     timeout |-> "15m"]
FileCount == <<RawCount>>
FileReadme == <<RawReadme>>
\* The example with its value written "+1"
FileReadmePlus == <<[RawReadme EXCEPT !.value = <<"+", "1">>]>>
\* RawCount with one defect each: no help text, an expression that does not
\* compile, a flag that does not exist, a value without operation prefix, a
\* literal that is no number
FileNoHelp == <<[RawCount EXCEPT !.help = ""]>>
FileBadPattern == <<[RawCount EXCEPT !.regex = [kind |-> "scalar", text |-> "("]]>>
FileBadFlag ==
    <<[RawCount EXCEPT !.regex = [kind |-> "map", expr |-> "P", flags |-> <<"bogus">>]]>>
FileNoPrefix == <<[RawCount EXCEPT !.value = <<"1">>]>>
FileBadLiteral == <<[RawCount EXCEPT !.value = <<"+", "a", "b", "c">>]>>
\* RawCount with its name empty or left out, which the decoder cannot tell
\* apart
FileNoName == <<[RawCount EXCEPT !.name = ""]>>
ConfigFiles ==
    {FileCount, FileReadme, FileReadmePlus, FileNoHelp, FileBadPattern, FileBadFlag,
     FileNoPrefix, FileBadLiteral, FileNoName}

\* A line of the README's exim log
LineExim == MkLine({ReadmeRegex}, "abc", "ok")

\* The rule sets fed lines that fail for a rule: a label that does not
\* resolve, a value that does not parse
RejectingScenarios ==
    {[rules |-> <<RuleByName, RuleByPos>>,
      lines |-> {LineFull, LineNoCode}, calls |-> MaxLines],
     [rules |-> <<RuleGauge, RuleSet>>,
      lines |-> {LineFull, LineBadAmount}, calls |-> MaxLines]}

\* Two counters whose names and label values run together when written
\* side by side: a{code="bc"} and ab{code="c"}.
RuleA ==
    MetricParser("a", MetricCounter, "h", "P",
                 <<LabelDef(LvLiteral("code"), LvNamed("code"), FALSE, "")>>,
                 VdLiteral(ValueOpAdd, 1), 0)
RuleAB ==
    MetricParser("ab", MetricCounter, "h", "P",
                 <<LabelDef(LvLiteral("code"), LvNamed("code"), FALSE, "")>>,
                 VdLiteral(ValueOpAdd, 1), 0)
\* Three rules for one name and one label mapping: the second declares the
\* labels in the other order and is a gauge, the third has another help text.
RuleFwd ==
    MetricParser("m", MetricCounter, "h", "P",
                 <<LabelDef(LvLiteral("code"), LvGroup(1), FALSE, ""),
                   LabelDef(LvLiteral("host"), LvLiteral("x"), FALSE, "")>>,
                 VdLiteral(ValueOpAdd, 1), 0)
RuleRev ==
    MetricParser("m", MetricGauge, "h", "P",
                 <<LabelDef(LvLiteral("host"), LvLiteral("x"), FALSE, ""),
                   LabelDef(LvLiteral("code"), LvGroup(1), FALSE, "")>>,
                 VdLiteral(ValueOpAdd, 1), 0)
RuleHelp ==
    MetricParser("m", MetricCounter, "h2", "P",
                 <<LabelDef(LvLiteral("code"), LvGroup(1), FALSE, ""),
                   LabelDef(LvLiteral("host"), LvLiteral("x"), FALSE, "")>>,
                 VdLiteral(ValueOpAdd, 1), 0)
\* A counter incremented by "+1" and reset by "-1"
RuleInc ==
    MetricParser("k", MetricCounter, "h", "P", <<>>, VdLiteral(ValueOpAdd, 1), 0)
RuleDec ==
    MetricParser("k", MetricCounter, "h", "P", <<>>, VdLiteral(ValueOpSubtract, 1), 0)
\* A gauge added to, subtracted from and set by the amount captured
RuleGAdd ==
    MetricParser("g", MetricGauge, "h", "P", <<>>, VdGroup(ValueOpAdd, 2), 0)
RuleGSub ==
    MetricParser("g", MetricGauge, "h", "P", <<>>, VdGroup(ValueOpSubtract, 2), 0)
RuleGSet ==
    MetricParser("g", MetricGauge, "h", "P", <<>>, VdGroup(ValueOpEquals, 2), 0)

LineBC == MkLine({"P"}, "bc", "1")
LineC == MkLine({"P"}, "c", "1")

\* The rule sets that exercise the update operations and the identities
OpScenarios ==
    {[rules |-> <<RuleA, RuleAB>>, lines |-> {LineBC, LineC}, calls |-> MaxLines],
     [rules |-> <<RuleFwd, RuleRev>>, lines |-> {LineFull}, calls |-> MaxLines],
     [rules |-> <<RuleFwd, RuleHelp>>, lines |-> {LineFull}, calls |-> MaxLines],
     [rules |-> <<RuleInc, RuleDec>>, lines |-> {LineFull}, calls |-> MaxLines],
     [rules |-> <<RuleGAdd, RuleGSub>>,
      lines |-> {LineFull, LineNoCode}, calls |-> MaxLines],
     [rules |-> <<RuleGSet, RuleGAdd>>, lines |-> {LineFull}, calls |-> MaxLines]}

\* Rule sets of two and of three rules, for the runs in which two sources
\* compete for the channels
FairScenarios ==
    {[rules |-> <<RuleSet, RuleInc>>, lines |-> {LineNoAmount}, calls |-> MaxLines],
     [rules |-> <<RuleInc, RuleDec, RuleGSet>>, lines |-> {LineNoMatch}, calls |-> MaxLines]}

\* A rule handed to lineProcessor with a ValueOp that is none of the three
\* constants (ValueOpType is an int), next to a rule for the same gauge
RuleBadOp ==
    MetricParser("g", MetricGauge, "h", "P", <<>>,
                 [VdGroup(ValueOpAdd, 2) EXCEPT !.ValueOp = "3"], 0)
BadOpScenarios ==
    {[rules |-> <<RuleGAdd, RuleBadOp>>,
      lines |-> {LineFull, LineNoCode}, calls |-> MaxLines]}

\* A rule with two label specs of the same name, the first with a literal
\* value and the second taking group 1, next to a rule with one label
RuleTwice ==
    MetricParser("t", MetricCounter, "h", "P",
                 <<LabelDef(LvLiteral("code"), LvLiteral("b"), FALSE, ""),
                   LabelDef(LvLiteral("code"), LvGroup(1), FALSE, "")>>,
                 VdLiteral(ValueOpAdd, 1), 0)
TwiceScenarios ==
    {[rules |-> <<RuleTwice, RuleByPos>>,
      lines |-> {LineFull, LineNoCode}, calls |-> MaxLines]}

\* Rules that declare a timeout next to rules that declare none
TimeoutScenarios ==
    {[rules |-> <<RuleByName, RuleByPos>>,
      lines |-> {LineFull, LineNoCode}, calls |-> MaxLines],
     [rules |-> <<RuleSet, RuleGauge>>, lines |-> {LineFull}, calls |-> MaxLines]}

\* Mutation: the worker goes on whether or not the pattern matched.
MatchesAlways(regex, line) == TRUE

\* Regex.MatcherString(line, 0).Matches(); the empty pattern matches every
\* line
Matches(regex, line) == regex = "" \/ regex \in line.pats

\* ------------------------------------------------------ regex_processors.go
ParseLabelKey(def, line) ==
    CASE def.FieldType = LabelValueLiteral ->
           [val |-> def.Literal, err |-> FALSE]
      [] def.FieldType = LabelValueCaptureGroupNamed ->
           IF ~NamedPresent(line, def.CaptureGroupName)
           THEN [val |-> "", err |-> TRUE]
           ELSE [val |-> NamedString(line, def.CaptureGroupName), err |-> FALSE]
      [] def.FieldType = LabelValueCaptureGroup ->
           [val |-> GroupString(line, def.CaptureGroup), err |-> FALSE]
      [] OTHER -> [val |-> "", err |-> TRUE]

RECURSIVE ParseLabelPairsFrom(_, _, _, _)
ParseLabelPairsFrom(def, line, idx, lps) ==
    IF idx > Len(def) THEN [lps |-> lps, err |-> FALSE, msg |-> <<>>]
    ELSE LET name == ParseLabelKey(def[idx].Name, line)
             value == ParseLabelKey(def[idx].Value, line)
         IN IF name.err
            THEN [lps |-> <<>>, err |-> TRUE, msg |-> <<"error parsing LabelDef for name">>]
            ELSE IF value.err
            THEN [lps |-> <<>>, err |-> TRUE, msg |-> <<"error parsing LabelDef for value">>]
            ELSE ParseLabelPairsFrom(def, line, idx + 1,
                                     Append(lps, [Name |-> name.val, Value |-> value.val]))

ParseLabelPairsFromMatch(def, line) == ParseLabelPairsFrom(def, line, 1, <<>>)

\* The named-group case returns the group's text as the value with a nil
\* error; the text is read as strconv reads it, the error discarded.
ParseValueFromMatch(def, line) ==
    CASE def.ValueSource = ValueSourceLiteral ->
           [val |-> def.Literal, err |-> FALSE, msg |-> <<>>]
      [] def.ValueSource = ValueSourceNamedCaptureGroup ->
           IF ~NamedPresent(line, def.CaptureGroupName)
           THEN [val |-> NaN, err |-> TRUE, msg |-> <<"unconvertible capture value">>]
           ELSE [val |-> ParseFloat(NamedString(line, def.CaptureGroupName)).val,
                 err |-> FALSE, msg |-> <<>>]
      [] def.ValueSource = ValueSourceCaptureGroup ->
           LET valstr == GroupString(line, def.CaptureGroup)
               r == ParseFloat(valstr)
           IN [val |-> r.val, err |-> r.err,
               msg |-> IF r.err THEN <<"strconv.ParseFloat: invalid syntax", valstr>>
                       ELSE <<>>]
      [] OTHER -> [val |-> NaN, err |-> TRUE, msg |-> <<"unknown conversion type">>]

\* --------------------------------------------------------- metrictypes.go
ZeroTime == 0      \* the zero time.Time of a metricValue never updated

\* prometheus.Labels built from the label pairs: a map, so a later pair
\* with the same name replaces an earlier one.
RECURSIVE LabelsFrom(_, _)
LabelsFrom(lps, idx) ==
    IF idx = 0 THEN [x \in {} |-> ""]
    ELSE LET prev == LabelsFrom(lps, idx - 1)
             nm == lps[idx].Name
         IN [x \in DOMAIN prev \cup {nm} |-> IF x = nm THEN lps[idx].Value ELSE prev[x]]
Labels(lps) == LabelsFrom(lps, Len(lps))

\* prometheus.NewDesc(fqName, help, []string{}, labelPairs)
NewDesc(fqName, help, labels) ==
    [fqName |-> fqName, help |-> help, constLabels |-> labels]
\* strconv.Quote, as %q prints a string: for text without quotes,
\* backslashes or control characters, the text between double quotes.
Quote(str) == "\"" \o str \o "\""

\* The label names of the rule sets in byte order, which is the order
\* LabelPairSorter puts the constant labels in.
NameOrder == <<"code", "host", "result", "uuid">>
SortedNames(labels) == SelectSeq(NameOrder, LAMBDA n : n \in DOMAIN labels)

\* strings.Join(lpStrings, ","), each lpString being name=%q(value)
RECURSIVE JoinLabelPairs(_, _)
JoinLabelPairs(labels, names) ==
    IF names = <<>> THEN ""
    ELSE Head(names) \o "=" \o Quote(labels[Head(names)])
         \o (IF Tail(names) = <<>> THEN "" ELSE ",")
         \o JoinLabelPairs(labels, Tail(names))

\* Mutation: the string is the name followed by the label values.
RECURSIVE JoinValues(_, _)
JoinValues(labels, names) ==
    IF names = <<>> THEN ""
    ELSE labels[Head(names)] \o JoinValues(labels, Tail(names))
DescStringBare(desc) ==
    desc.fqName \o JoinValues(desc.constLabels, SortedNames(desc.constLabels))

\* Desc.String()
DescString(desc) ==
    "Desc{fqName: " \o Quote(desc.fqName) \o ", help: " \o Quote(desc.help)
    \o ", constLabels: {"
    \o JoinLabelPairs(desc.constLabels, SortedNames(desc.constLabels))
    \o "}, variableLabels: []}"

\* sha256 of desc.String(): the digest stands for the string digested
DescHash(desc) == DescString(desc)

newMetricValue(fqName, help, valueType, timeout, labels) ==
    IF valueType \notin {MetricUntyped, MetricGauge, MetricCounter}
    THEN [metric |-> Nil, err |-> TRUE, msg |-> <<"unknown metric value type">>]
    ELSE LET desc == NewDesc(fqName, help, labels)
         IN [metric |-> [desc |-> desc, hash |-> DescHash(desc),
                         valueType |-> valueType, value |-> F(0),
                         timeout |-> timeout, lastUpdated |-> ZeroTime],
             err |-> FALSE, msg |-> <<>>]

\* metricValue.Set
MvSet(mv, v, t) == [mv EXCEPT !.value = v, !.lastUpdated = t]

\* metricValue.IsStale at time t
IsStale(mv, t) == IF mv.timeout > 0 THEN t - mv.lastUpdated > mv.timeout ELSE FALSE

\* ------------------------------------------------------------------- state
VARIABLES
    cfg,            \* cfg.MetricConfigs, fixed at construction
    feed,           \* the lines the sources deliver in this behaviour, and how many
    main,           \* where main() is: "load", "run" (sources started) or "exited"
    conv,           \* a configuration scalar on its way through the YAML conversions
    regexCh,        \* regexCh[r]: the buffered channel of rule r (call ids)
    src,            \* src[s]: a line source's position inside IngestLine
    lp,             \* lp[r]: the lineProcessor goroutine of rule r
    stuck,          \* stuck[r]: the goroutine of rule r no longer returns from its match
    metrics,        \* the hashmap: hash -> pointer
    heap,           \* the metricValue objects ever published, by pointer
    ingestedLines,  \* the counter IngestLine increments
    rejectedLines,  \* the counter vector, by "reason" label value
    now,            \* the wall clock
    exported,       \* the series the last Collect sent
    crashed,        \* a goroutine panicked: the process is gone
    calls,          \* history: the line of every IngestLine call, by call id
    offered,        \* history: offered[r], the calls sent on regexCh[r], in order
    done,           \* history: done[r], the calls rule r has finished with, in order
    applied,        \* history: applied[r], the store writes of rule r
    rejections      \* history: rejections[r], the rejections rule r counted

vars == <<cfg, feed, main, conv, regexCh, src, lp, stuck, metrics, heap, ingestedLines,
          rejectedLines, now, exported, crashed, calls, offered, done,
          applied, rejections>>

Rules == DOMAIN cfg

Idle == [pc |-> "recv", call |-> 0, metric |-> Nil, value |-> NaN,
         ptr |-> <<>>, tmp |-> NaN]

\* What does not depend on the rule set: no line read, nothing stored
InitRest ==
    /\ conv = NoScalar
    /\ src = [s \in Sources |-> [pos |-> 0, call |-> 0]]
    /\ metrics = [h \in {} |-> <<>>]
    /\ heap = [p \in {} |-> Nil]
    /\ ingestedLines = 0
    /\ rejectedLines = [x \in {} |-> 0]
    /\ now = 1
    /\ exported = {}
    /\ crashed = FALSE
    /\ calls = <<>>

\* The state newTailCollector leaves, for a rule set and the lines to come
InitWith(sc) ==
    /\ cfg = sc.rules
    /\ feed = [lines |-> sc.lines, calls |-> sc.calls]
    /\ main = "run"
    /\ regexCh = [r \in DOMAIN cfg |-> <<>>]
    /\ lp = [r \in DOMAIN cfg |-> Idle]
    /\ stuck = [r \in DOMAIN cfg |-> FALSE]
    /\ offered = [r \in DOMAIN cfg |-> <<>>]
    /\ done = [r \in DOMAIN cfg |-> <<>>]
    /\ applied = [r \in DOMAIN cfg |-> <<>>]
    /\ rejections = [r \in DOMAIN cfg |-> <<>>]
    /\ InitRest

Init == \E sc \in Scenarios : InitWith(sc)

InitOps == \E sc \in OpScenarios : InitWith(sc)

InitLive == \E sc \in RejectingScenarios : InitWith(sc)

InitFair == \E sc \in FairScenarios : InitWith(sc)

InitTwice == \E sc \in TwiceScenarios : InitWith(sc)

\* The state newTailCollector leaves in either program: the one whose call
\* of newMetricValue hands the rule's timeout over, and the one whose call
\* hands none
InitBuild ==
    /\ \E sc \in TimeoutScenarios : \E passed \in BOOLEAN :
          /\ cfg = sc.rules
          /\ feed = [lines |-> sc.lines, calls |-> sc.calls, timeoutPassed |-> passed]
    /\ main = "run"
    /\ regexCh = [r \in DOMAIN cfg |-> <<>>]
    /\ lp = [r \in DOMAIN cfg |-> Idle]
    /\ stuck = [r \in DOMAIN cfg |-> FALSE]
    /\ offered = [r \in DOMAIN cfg |-> <<>>]
    /\ done = [r \in DOMAIN cfg |-> <<>>]
    /\ applied = [r \in DOMAIN cfg |-> <<>>]
    /\ rejections = [r \in DOMAIN cfg |-> <<>>]
    /\ InitRest

InitBadOp == \E sc \in BadOpScenarios : InitWith(sc)

\* A scalar of the configuration about to be decoded; no collector exists
InitCodec ==
    /\ \E type \in ScalarTypes : \E cs \in Scalars :
          conv = [stage |-> "scalar", type |-> type, text |-> cs]
    /\ cfg = <<>>
    /\ feed = [lines |-> {}, calls |-> 0]
    /\ main = "load"
    /\ regexCh = <<>>
    /\ lp = <<>>
    /\ stuck = <<>>
    /\ offered = <<>>
    /\ done = <<>>
    /\ applied = <<>>
    /\ rejections = <<>>
    /\ src = [s \in Sources |-> [pos |-> 0, call |-> 0]]
    /\ metrics = [h \in {} |-> <<>>]
    /\ heap = [p \in {} |-> Nil]
    /\ ingestedLines = 0
    /\ rejectedLines = [x \in {} |-> 0]
    /\ now = 1
    /\ exported = {}
    /\ crashed = FALSE
    /\ calls = <<>>

\* The state main() starts in: the configuration file not yet read, no
\* collector built
InitStartup ==
    /\ \E file \in ConfigFiles :
          feed = [lines |-> {LineExim, LineFull}, calls |-> MaxLines, file |-> file]
    /\ cfg = <<>>
    /\ main = "load"
    /\ regexCh = <<>>
    /\ lp = <<>>
    /\ stuck = <<>>
    /\ offered = <<>>
    /\ done = <<>>
    /\ applied = <<>>
    /\ rejections = <<>>
    /\ InitRest

\* CounterVec.WithLabelValues(reason).Inc()
IncReason(vec, reason) ==
    [x \in DOMAIN vec \cup {reason} |->
        IF x = reason THEN (IF x \in DOMAIN vec THEN vec[x] ELSE 0) + 1 ELSE vec[x]]

\* Mutation: the insert leaves the new key as the map's only entry.
HashmapSetAlone(m, key, ptr) == [x \in {key} |-> ptr]

\* hashmap.Set(key, ptr): insert, or replace the value of an existing key
HashmapSet(m, key, ptr) ==
    [x \in DOMAIN m \cup {key} |-> IF x = key THEN ptr ELSE m[x]]

\* Storing through a pointer
Store(h, ptr, obj) ==
    [x \in DOMAIN h \cup {ptr} |-> IF x = ptr THEN obj ELSE h[x]]

\* ------------------------------------------------------------- IngestLine
\* Mutation: the line is dispatched without being counted.
IngestLineUncounted(s, line) ==
    /\ ~crashed
    /\ main = "run"
    /\ src[s].pos = 0
    /\ Len(calls) < feed.calls
    /\ calls' = Append(calls, line)
    /\ src' = [src EXCEPT ![s] = [pos |-> 1, call |-> Len(calls) + 1]]
    /\ UNCHANGED <<cfg, feed, main, conv, regexCh, lp, stuck, metrics, heap, ingestedLines,
                   rejectedLines, now, exported, crashed, offered, done, applied,
                   rejections>>

\* c.ingestedLines.Inc(), on entry
IngestLine(s, line) ==
    /\ ~crashed
    /\ main = "run"
    /\ src[s].pos = 0
    /\ Len(calls) < feed.calls
    /\ ingestedLines' = ingestedLines + 1
    /\ calls' = Append(calls, line)
    /\ src' = [src EXCEPT ![s] = [pos |-> 1, call |-> Len(calls) + 1]]
    /\ UNCHANGED <<cfg, feed, main, conv, regexCh, lp, stuck, metrics, heap, rejectedLines, now,
                   exported, crashed, offered, done, applied, rejections>>

\* Mutation: the fan-out loop leaves out every other rule.
NextRuleSkipping(r) == r + 2

\* The rule a caller offers its line to after rule r
NextRule(r) == r + 1

\* Mutation: the fan-out returns after the first channel.
OfferFirstOnly(s) ==
    /\ ~crashed
    /\ src[s].pos # 0
    /\ LET r == src[s].pos
       IN /\ Len(regexCh[r]) < ChanCap
          /\ regexCh' = [regexCh EXCEPT ![r] = Append(@, src[s].call)]
          /\ offered' = [offered EXCEPT ![r] = Append(@, src[s].call)]
          /\ src' = [src EXCEPT ![s] = [pos |-> 0, call |-> 0]]
    /\ UNCHANGED <<cfg, feed, main, conv, lp, stuck, metrics, heap, ingestedLines, rejectedLines,
                   now, exported, crashed, calls, done, applied, rejections>>

\* Mutation: a non-blocking send (select with a default branch) that gives
\* the line up when the channel is full.
OfferDropping(s) ==
    /\ ~crashed
    /\ src[s].pos # 0
    /\ LET r == src[s].pos
           nxt == r + 1
           full == Len(regexCh[r]) >= ChanCap
       IN /\ regexCh' = [regexCh EXCEPT ![r] = IF full THEN @ ELSE Append(@, src[s].call)]
          /\ offered' = [offered EXCEPT ![r] = IF full THEN @ ELSE Append(@, src[s].call)]
          /\ src' = [src EXCEPT ![s] = IF nxt \in Rules
                                       THEN [pos |-> nxt, call |-> src[s].call]
                                       ELSE [pos |-> 0, call |-> 0]]
    /\ UNCHANGED <<cfg, feed, main, conv, lp, stuck, metrics, heap, ingestedLines, rejectedLines,
                   now, exported, crashed, calls, done, applied, rejections>>

\* Mutation: the channel takes the line however many it holds (a channel
\* made without a capacity bound).
OfferNoWait(s) ==
    /\ ~crashed
    /\ src[s].pos # 0
    /\ LET r == src[s].pos
           nxt == r + 1
       IN /\ regexCh' = [regexCh EXCEPT ![r] = Append(@, src[s].call)]
          /\ offered' = [offered EXCEPT ![r] = Append(@, src[s].call)]
          /\ src' = [src EXCEPT ![s] = IF nxt \in Rules
                                       THEN [pos |-> nxt, call |-> src[s].call]
                                       ELSE [pos |-> 0, call |-> 0]]
    /\ UNCHANGED <<cfg, feed, main, conv, lp, stuck, metrics, heap, ingestedLines, rejectedLines,
                   now, exported, crashed, calls, done, applied, rejections>>

\* ch <- line, for the channel the loop has reached; blocks while it is full
Offer(s) ==
    /\ ~crashed
    /\ src[s].pos # 0
    /\ LET r == src[s].pos
           nxt == NextRule(r)
       IN /\ Len(regexCh[r]) < ChanCap
          /\ regexCh' = [regexCh EXCEPT ![r] = Append(@, src[s].call)]
          /\ offered' = [offered EXCEPT ![r] = Append(@, src[s].call)]
          /\ src' = [src EXCEPT ![s] = IF nxt \in Rules
                                       THEN [pos |-> nxt, call |-> src[s].call]
                                       ELSE [pos |-> 0, call |-> 0]]
    /\ UNCHANGED <<cfg, feed, main, conv, lp, stuck, metrics, heap, ingestedLines, rejectedLines,
                   now, exported, crashed, calls, done, applied, rejections>>

\* ----------------------------------------------------------- lineProcessor
\* Mutation: the receive leaves the line in the channel.
ChanRecvPeek(ch) == [call |-> Head(ch), rest |-> ch]

\* One receive from a buffered channel: the line taken and what stays queued
ChanRecv(ch) == [call |-> Head(ch), rest |-> Tail(ch)]

\* The timeout newMetricValue receives from the call of main.go 148: the
\* rule's, or none where the call stands as written (the metricValue then
\* keeps the zero Duration)
TimeoutArg(rule) ==
    IF "timeoutPassed" \in DOMAIN feed /\ ~feed.timeoutPassed THEN 0 ELSE rule.Timeout

\* What lineProcessor derives from a line before it touches the store
\* (main.go 134-159): "go" tells whether it goes on to the store.
Extract(rule, line) ==
    IF ~Matches(rule.Regex, line)
    THEN [go |-> FALSE, reasons |-> <<>>, metric |-> Nil, value |-> NaN]
    ELSE LET lr == ParseLabelPairsFromMatch(rule.Labels, line)
         IN IF lr.err
            THEN [go |-> FALSE, reasons |-> <<lr.msg>>, metric |-> Nil, value |-> NaN]
            ELSE LET mr == newMetricValue(rule.Name, rule.Help, rule.Type,
                                          TimeoutArg(rule), Labels(lr.lps))
                     vr == ParseValueFromMatch(rule.Value, line)
                 IN [go |-> TRUE,
                     reasons |-> (IF mr.err THEN <<mr.msg>> ELSE <<>>)
                                 \o (IF vr.err THEN <<vr.msg>> ELSE <<>>),
                     metric |-> mr.metric, value |-> vr.val]

RECURSIVE IncReasons(_, _)
IncReasons(vec, reasons) ==
    IF reasons = <<>> THEN vec
    ELSE IncReasons(IncReason(vec, Head(reasons)), Tail(reasons))

RejectionsOf(call, reasons) ==
    [i \in 1..Len(reasons) |-> [call |-> call, reason |-> reasons[i]]]

\* Mutation: the worker returns from lineProcessor on a line it does not
\* carry to the store.
ContinueReturns == [Idle EXCEPT !.pc = "returned"]

\* continue: the worker is back at the head of its loop
Continue == Idle

\* for line := range lineCh { ... }: one receive, and lines 134-159 on the
\* line received
Receive(r) ==
    /\ ~crashed
    /\ lp[r].pc = "recv"
    /\ regexCh[r] # <<>>
    /\ LET got == ChanRecv(regexCh[r])
           x == Extract(cfg[r], calls[got.call])
       IN /\ regexCh' = [regexCh EXCEPT ![r] = got.rest]
          /\ rejectedLines' = IncReasons(rejectedLines, x.reasons)
          /\ rejections' = [rejections EXCEPT
                              ![r] = @ \o RejectionsOf(got.call, x.reasons)]
          /\ IF x.go
             THEN /\ lp' = [lp EXCEPT ![r] = [Idle EXCEPT !.pc = "lookup",
                                                          !.call = got.call,
                                                          !.metric = x.metric,
                                                          !.value = x.value]]
                  /\ done' = done
             ELSE /\ lp' = [lp EXCEPT ![r] = Continue]
                  /\ done' = [done EXCEPT ![r] = Append(@, got.call)]
    /\ UNCHANGED <<cfg, feed, main, conv, src, stuck, metrics, heap, ingestedLines, now,
                   exported, crashed, calls, offered, applied>>

\* The goroutine of rule r receives a line and its matcher never returns
\* (a pathological pattern): it makes no further step.
Stall(r) ==
    /\ ~crashed
    /\ lp[r].pc = "recv"
    /\ regexCh[r] # <<>>
    /\ LET got == ChanRecv(regexCh[r])
       IN /\ regexCh' = [regexCh EXCEPT ![r] = got.rest]
          /\ lp' = [lp EXCEPT ![r] = [Idle EXCEPT !.pc = "match", !.call = got.call]]
    /\ stuck' = [stuck EXCEPT ![r] = TRUE]
    /\ UNCHANGED <<cfg, feed, main, conv, src, metrics, heap, ingestedLines, rejectedLines,
                   now, exported, crashed, calls, offered, done, applied,
                   rejections>>

\* c.metrics.GetStringKey(metric.GetHash())
Lookup(r) ==
    /\ ~crashed
    /\ lp[r].pc = "lookup"
    /\ IF lp[r].metric = Nil
       THEN /\ crashed' = TRUE      \* GetHash on a nil *metricValue
            /\ lp' = lp
       ELSE /\ crashed' = crashed
            /\ LET h == lp[r].metric.hash
               IN IF h \in DOMAIN metrics
                  THEN lp' = [lp EXCEPT ![r].pc = "update", ![r].ptr = metrics[h]]
                  ELSE lp' = [lp EXCEPT ![r].pc = "create"]
    /\ UNCHANGED <<cfg, feed, main, conv, regexCh, src, stuck, metrics, heap, ingestedLines,
                   rejectedLines, now, exported, calls, offered, done, applied,
                   rejections>>

Written(r, ptr, created) ==
    [call |-> lp[r].call, hash |-> heap'[ptr].hash, ptr |-> ptr,
     value |-> lp[r].value, created |-> created]

\* Mutation: the worker leaves its loop after a store write.
FinishReturns(r, ptr, created) ==
    /\ lp' = [lp EXCEPT ![r] = [Idle EXCEPT !.pc = "returned"]]
    /\ done' = [done EXCEPT ![r] = Append(@, lp[r].call)]
    /\ applied' = [applied EXCEPT ![r] = Append(@, Written(r, ptr, created))]

\* The worker is through with its line after a store write
Finish(r, ptr, created) ==
    /\ lp' = [lp EXCEPT ![r] = Idle]
    /\ done' = [done EXCEPT ![r] = Append(@, lp[r].call)]
    /\ applied' = [applied EXCEPT ![r] = Append(@, Written(r, ptr, created))]

\* Mutation: the creating match publishes the series without its value.
InitialValueZero(rule, value) == F(0)

\* The value the creating match stores
InitialValue(rule, value) == value

\* Mutation: the series is put in the hashmap before metric.Set(value) has
\* run on it.
CreateBeforeSet(r) ==
    /\ ~crashed
    /\ lp[r].pc = "create"
    /\ LET ptr == <<r, lp[r].call>>
           obj == lp[r].metric
       IN /\ heap' = Store(heap, ptr, obj)
          /\ metrics' = HashmapSet(metrics, obj.hash, ptr)
          /\ Finish(r, ptr, TRUE)
    /\ UNCHANGED <<cfg, feed, main, conv, regexCh, src, stuck, ingestedLines, rejectedLines, now,
                   exported, crashed, calls, offered, rejections>>

\* metric.Set(value); c.metrics.Set(metric.GetHash(), unsafe.Pointer(&metric))
Create(r) ==
    /\ ~crashed
    /\ lp[r].pc = "create"
    /\ LET ptr == <<r, lp[r].call>>
           obj == MvSet(lp[r].metric, InitialValue(cfg[r], lp[r].value), now)
       IN /\ heap' = Store(heap, ptr, obj)
          /\ metrics' = HashmapSet(metrics, obj.hash, ptr)
          /\ Finish(r, ptr, TRUE)
    /\ UNCHANGED <<cfg, feed, main, conv, regexCh, src, stuck, ingestedLines, rejectedLines, now,
                   exported, crashed, calls, offered, rejections>>

\* metricValue.Add, the part after the sum is stored: the overflow check
MvAddClamp(mv, t) ==
    [mv EXCEPT !.value = IF FNeg(mv.value) /\ mv.valueType = MetricCounter
                         THEN F(0) ELSE mv.value,
               !.lastUpdated = t]

\* metricValue.Sub on a counter
MvSubCounter(mv, t) == [mv EXCEPT !.value = F(0), !.lastUpdated = t]

\* switch cfg.Value.ValueOp: Set and the counter's Sub write without reading
\* the stored value; Add and Sub first load mv.value (no lock is held, so
\* the load and the store below are separate steps).
Update(r) ==
    /\ ~crashed
    /\ lp[r].pc = "update"
    /\ LET op == cfg[r].Value.ValueOp
           ptr == lp[r].ptr
           mv == heap[ptr]
       IN IF op = ValueOpEquals
          THEN /\ heap' = Store(heap, ptr, MvSet(mv, lp[r].value, now))
               /\ Finish(r, ptr, FALSE)
               /\ crashed' = crashed
          ELSE IF op = ValueOpSubtract /\ mv.valueType = MetricCounter
          THEN /\ heap' = Store(heap, ptr, MvSubCounter(mv, now))
               /\ Finish(r, ptr, FALSE)
               /\ crashed' = crashed
          ELSE IF op \in {ValueOpAdd, ValueOpSubtract}
          THEN /\ lp' = [lp EXCEPT ![r].pc = "write", ![r].tmp = mv.value]
               /\ UNCHANGED <<heap, done, applied, crashed>>
          ELSE /\ crashed' = TRUE      \* panic("unknown value source specification")
               /\ UNCHANGED <<heap, lp, done, applied>>
    /\ UNCHANGED <<cfg, feed, main, conv, regexCh, src, stuck, metrics, ingestedLines,
                   rejectedLines, now, exported, calls, offered, rejections>>

\* mv.value += v / mv.value -= v: the store of the new value
Write(r) ==
    /\ ~crashed
    /\ lp[r].pc = "write"
    /\ LET ptr == lp[r].ptr
           mv == heap[ptr]
       IN IF cfg[r].Value.ValueOp = ValueOpAdd
          THEN /\ heap' = Store(heap, ptr, [mv EXCEPT !.value = FAdd(lp[r].tmp, lp[r].value)])
               /\ lp' = [lp EXCEPT ![r].pc = "clamp"]
               /\ UNCHANGED <<done, applied>>
          ELSE /\ heap' = Store(heap, ptr, MvSet(mv, FSub(lp[r].tmp, lp[r].value), now))
               /\ Finish(r, ptr, FALSE)
    /\ UNCHANGED <<cfg, feed, main, conv, regexCh, src, stuck, metrics, ingestedLines,
                   rejectedLines, now, exported, crashed, calls, offered,
                   rejections>>

\* if mv.value < 0 && counter { mv.value = 0 }; mv.lastUpdated = time.Now()
Clamp(r) ==
    /\ ~crashed
    /\ lp[r].pc = "clamp"
    /\ heap' = Store(heap, lp[r].ptr, MvAddClamp(heap[lp[r].ptr], now))
    /\ Finish(r, lp[r].ptr, FALSE)
    /\ UNCHANGED <<cfg, feed, main, conv, regexCh, src, stuck, metrics, ingestedLines,
                   rejectedLines, now, exported, crashed, calls, offered,
                   rejections>>

\* ------------------------------------------------------------ environment
\* Time passes
Tick ==
    /\ now < 1 + MaxTime
    /\ now' = now + 1
    /\ UNCHANGED <<cfg, feed, main, conv, regexCh, src, lp, stuck, metrics, heap, ingestedLines,
                   rejectedLines, exported, crashed, calls, offered, done,
                   applied, rejections>>

\* for kv := range c.metrics.Iter() { metric.Collect(ch) }
Snapshot == {heap[metrics[h]] : h \in DOMAIN metrics}

Collect ==
    /\ ~crashed
    /\ exported' = Snapshot
    /\ UNCHANGED <<cfg, feed, main, conv, regexCh, src, lp, stuck, metrics, heap, ingestedLines,
                   rejectedLines, now, crashed, calls, offered, done, applied,
                   rejections>>

\* The collector's own series.  newTailCollector assigns the fields in this
\* order; a field assigned twice keeps the metric assigned last, a field
\* never assigned stays nil.
Namespace == "tail_collector"
BuildFQName(namespace, name) == namespace \o "_" \o name
NewOwnMetric(kind, name) == [kind |-> kind, fqName |-> BuildFQName(Namespace, name)]
FieldAssignments ==
    <<[field |-> "numMetrics", metric |-> NewOwnMetric(MetricGauge, "metric_regexes")],
      [field |-> "numMetrics", metric |-> NewOwnMetric(MetricGauge, "hashmap_size")],
      [field |-> "ingestedLines", metric |-> NewOwnMetric(MetricCounter, "ingested_lines_total")],
      [field |-> "rejectedLines", metric |-> NewOwnMetric(MetricCounter, "rejected_lines_total")],
      [field |-> "ingestedLines", metric |-> NewOwnMetric(MetricCounter, "timedout_metrics_total")]>>
RECURSIVE AssignFields(_, _)
AssignFields(c, as) ==
    IF as = <<>> THEN c
    ELSE AssignFields([c EXCEPT ![Head(as).field] = Head(as).metric], Tail(as))
OwnMetrics ==
    AssignFields([numMetrics |-> Nil, ingestedLines |-> Nil, rejectedLines |-> Nil,
                  timedoutMetrics |-> Nil], FieldAssignments)

\* c.numMetrics.Collect(ch); c.ingestedLines.Collect(ch);
\* c.rejectedLines.Collect(ch): the series these send, c.numMetrics having
\* been set to len(cfg.MetricConfigs)
OwnSeries ==
    {[fqName |-> OwnMetrics.numMetrics.fqName, kind |-> OwnMetrics.numMetrics.kind,
      labels |-> << >>, value |-> Len(cfg)],
     [fqName |-> OwnMetrics.ingestedLines.fqName, kind |-> OwnMetrics.ingestedLines.kind,
      labels |-> << >>, value |-> ingestedLines]}
    \cup {[fqName |-> OwnMetrics.rejectedLines.fqName,
           kind |-> OwnMetrics.rejectedLines.kind,
           labels |-> [reason |-> x], value |-> rejectedLines[x]] :
          x \in DOMAIN rejectedLines}

\* main, up to the start of the line sources: config.LoadFile; log.Fatalln
\* on an error (a panic of the loader ends the process as well);
\* newTailCollector, which starts one worker per rule
Main ==
    /\ main = "load"
    /\ LET r == LoadFile(feed.file)
       IN IF r.err \/ r.panic
          THEN /\ main' = "exited"
               /\ UNCHANGED <<cfg, regexCh, lp, stuck, offered, done, applied, rejections>>
          ELSE /\ main' = "run"
               /\ cfg' = r.cfg
               /\ regexCh' = [i \in DOMAIN r.cfg |-> <<>>]
               /\ lp' = [i \in DOMAIN r.cfg |-> Idle]
               /\ stuck' = [i \in DOMAIN r.cfg |-> FALSE]
               /\ offered' = [i \in DOMAIN r.cfg |-> <<>>]
               /\ done' = [i \in DOMAIN r.cfg |-> <<>>]
               /\ applied' = [i \in DOMAIN r.cfg |-> <<>>]
               /\ rejections' = [i \in DOMAIN r.cfg |-> <<>>]
    /\ UNCHANGED <<feed, conv, src, metrics, heap, ingestedLines, rejectedLines, now,
                   exported, crashed, calls>>

\* yaml.Unmarshal of a scalar into a ValueDef or a LabelValueDef: the
\* definition, an error, or a panic that ends the process
Decode ==
    /\ conv.stage = "scalar"
    /\ LET r == Unmarshal(conv.type, conv.text)
       IN /\ conv' = IF r.panic THEN [conv EXCEPT !.stage = "panicked"]
                     ELSE IF r.err THEN [conv EXCEPT !.stage = "rejected"]
                     ELSE [stage |-> "loaded", type |-> conv.type, text |-> conv.text,
                           def |-> r.def]
          /\ crashed' = r.panic
    /\ UNCHANGED <<cfg, feed, main, regexCh, src, lp, stuck, metrics, heap, ingestedLines,
                   rejectedLines, now, exported, calls, offered, done, applied,
                   rejections>>

\* yaml.Marshal of the loaded definition
Encode ==
    /\ conv.stage = "loaded"
    /\ LET r == Marshal(conv.type, conv.def)
       IN conv' = IF r.err THEN [conv EXCEPT !.stage = "unwritable"]
                  ELSE [stage |-> "written", type |-> conv.type, text |-> conv.text,
                        def |-> conv.def, out |-> r.text]
    /\ UNCHANGED <<cfg, feed, main, regexCh, src, lp, stuck, metrics, heap, ingestedLines,
                   rejectedLines, now, exported, crashed, calls, offered, done, applied,
                   rejections>>

\* yaml.Unmarshal of what was written
DecodeAgain ==
    /\ conv.stage = "written"
    /\ LET r == Unmarshal(conv.type, conv.out)
       IN /\ conv' = [stage |-> "reloaded", type |-> conv.type, text |-> conv.text,
                      def |-> conv.def, out |-> conv.out, back |-> r]
          /\ crashed' = r.panic
    /\ UNCHANGED <<cfg, feed, main, regexCh, src, lp, stuck, metrics, heap, ingestedLines,
                   rejectedLines, now, exported, calls, offered, done, applied,
                   rejections>>

\* The line sources and the rule workers
Core ==
    \/ \E r \in Rules : Receive(r)
    \/ \E r \in Rules : Lookup(r)
    \/ \E r \in Rules : Create(r)
    \/ \E r \in Rules : Update(r)
    \/ \E r \in Rules : Write(r)
    \/ \E r \in Rules : Clamp(r)

Next ==
    \/ \E s \in Sources, line \in feed.lines : IngestLine(s, line)
    \/ \E s \in Sources : Offer(s)
    \/ \E r \in Rules : Stall(r)
    \/ Core

Spec == Init /\ [][Next]_vars

\* One source, the clock and the exporter
NextTime ==
    \/ \E line \in feed.lines : IngestLine("tail", line)
    \/ Offer("tail")
    \/ Core
    \/ Tick
    \/ Collect

SpecTime == Init /\ [][NextTime]_vars

\* One source and the rule workers, on the rule sets of OpScenarios
NextOps ==
    \/ \E line \in feed.lines : IngestLine("tail", line)
    \/ Offer("tail")
    \/ Core

SpecOps == InitOps /\ [][NextOps]_vars

\* The same steps on a rule whose label specs share a name
SpecTwice == InitTwice /\ [][NextOps]_vars

\* One source, the rule workers and the exporter, which may run between
\* any two steps of a worker
NextExport ==
    \/ \E line \in feed.lines : IngestLine("tail", line)
    \/ Offer("tail")
    \/ Core
    \/ Collect

SpecExport == InitOps /\ [][NextExport]_vars

\* One source and the rule workers, in either program
SpecBuild == InitBuild /\ [][NextOps]_vars

\* lineProcessor run on a rule whose operation is none of the three
SpecBadOp == InitBadOp /\ [][NextOps]_vars

\* A scalar decoded, written out and decoded again
NextCodec == Decode \/ Encode \/ DecodeAgain

SpecCodec == InitCodec /\ [][NextCodec]_vars

\* The steps of the goroutine of rule r
Worker(r) ==
    /\ r \in Rules
    /\ (Receive(r) \/ Lookup(r) \/ Create(r) \/ Update(r) \/ Write(r) \/ Clamp(r))

\* One source and no worker stuck in its matcher; the scheduler lets every
\* goroutine that can run take its step.
NextLive ==
    \/ \E line \in feed.lines : IngestLine("tail", line)
    \/ Offer("tail")
    \/ Core

SpecLive ==
    /\ InitLive
    /\ [][NextLive]_vars
    /\ WF_vars(Worker(1))
    /\ WF_vars(Worker(2))

\* Two sources and no worker stuck in its matcher.  A goroutine that can
\* run is scheduled, and a sender parked on a full channel is woken when a
\* slot frees.
NextFair ==
    \/ \E s \in Sources, line \in feed.lines : IngestLine(s, line)
    \/ \E s \in Sources : Offer(s)
    \/ Core

SpecFair ==
    /\ InitFair
    /\ [][NextFair]_vars
    /\ \A r \in 1..3 : WF_vars(Worker(r))
    /\ \A s \in Sources : WF_vars(Offer(s))

\* The process from its start: the configuration is loaded, then one source
\* feeds the workers
NextStartup ==
    \/ Main
    \/ \E line \in feed.lines : IngestLine("tail", line)
    \/ Offer("tail")
    \/ Core

SpecStartup == InitStartup /\ [][NextStartup]_vars

\* ================================================================== claims
\* Vocabulary of the claims, stated on the histories.
CallIds == 1..Len(calls)
\* The sources are outside IngestLine and every worker waits on an empty channel
Quiescent ==
    /\ \A s \in Sources : src[s].pos = 0
    /\ \A r \in Rules : lp[r].pc = "recv" /\ regexCh[r] = <<>>
\* Rule r finished with call c / wrote the store for call c
Finished(r, c) == \E i \in 1..Len(done[r]) : done[r][i] = c
AppliedAt(r, c) == {i \in 1..Len(applied[r]) : applied[r][i].call = c}
RejectedAt(r, c) == {i \in 1..Len(rejections[r]) : rejections[r][i].call = c}
\* The store writes made for identity h
Writes(h) ==
    {w \in Rules \X (1..feed.calls) : w[2] <= Len(applied[w[1]])
                                    /\ applied[w[1]][w[2]].hash = h}
RECURSIVE SumWrites(_)
SumWrites(ws) ==
    IF ws = {} THEN 0
    ELSE LET w == CHOOSE x \in ws : TRUE
         IN applied[w[1]][w[2]].value.n + SumWrites(ws \ {w})
\* The labels of the series a write went to
WriteLabels(w) == heap[w.ptr].desc.constLabels
\* A capture reference whose group did not take part in the match
GroupMissing(lv, line) ==
    \/ lv.FieldType = LabelValueCaptureGroup /\ line.g[lv.CaptureGroup] = Absent
    \/ lv.FieldType = LabelValueCaptureGroupNamed /\ ~NamedPresent(line, lv.CaptureGroupName)
\* The value spec cannot be resolved to a number on this line
ValueUnresolvable(vd, line) ==
    \/ vd.ValueSource = ValueSourceCaptureGroup
         /\ (line.g[vd.CaptureGroup] = Absent \/ ParseFloat(line.g[vd.CaptureGroup]).err)
    \/ vd.ValueSource = ValueSourceNamedCaptureGroup
         /\ (~NamedPresent(line, vd.CaptureGroupName)
             \/ ParseFloat(NamedString(line, vd.CaptureGroupName)).err)
\* Every label of the rule resolves without a default
LabelsResolvable(rule, line) ==
    \A i \in 1..Len(rule.Labels) :
        ~GroupMissing(rule.Labels[i].Name, line) /\ ~GroupMissing(rule.Labels[i].Value, line)

\* C1: when several rule workers process matching lines for an identity not
\* yet in the store, the store ends with one series whose value reflects
\* every update: once nothing is in flight, a series written only by Add
\* rules with non-negative amounts holds the sum of the amounts.
C1_AllCreatingUpdatesReflected ==
    Quiescent =>
        \A h \in DOMAIN metrics :
            (\A w \in Writes(h) : /\ cfg[w[1]].Value.ValueOp = ValueOpAdd
                                  /\ ~applied[w[1]][w[2]].value.nan
                                  /\ applied[w[1]][w[2]].value.n >= 0)
            => heap[metrics[h]].value = F(SumWrites(Writes(h)))

\* C2: the stored value of a Counter series is never negative.
C2_CounterNeverNegative ==
    \A h \in DOMAIN metrics :
        heap[metrics[h]].valueType = MetricCounter => ~FNeg(heap[metrics[h]].value)

\* C3: a matching line whose value cannot be resolved is dropped for that
\* rule: the rule writes nothing to the store for it and counts a rejection.
C3_UnresolvableValueDropsLine ==
    \A r \in Rules : \A c \in CallIds :
        (/\ Finished(r, c)
         /\ Matches(cfg[r].Regex, calls[c])
         /\ LabelsResolvable(cfg[r], calls[c])
         /\ ValueUnresolvable(cfg[r].Value, calls[c]))
        => (AppliedAt(r, c) = {} /\ RejectedAt(r, c) # {})

\* C4: a matching line with a label whose capture group did not take part,
\* the label declaring no default, is dropped for that rule: no store write,
\* and exactly one rejection counted.
C4_MissingLabelCaptureDropsLine ==
    \A r \in Rules : \A c \in CallIds :
        (/\ Finished(r, c)
         /\ Matches(cfg[r].Regex, calls[c])
         /\ \E i \in 1..Len(cfg[r].Labels) :
               /\ ~cfg[r].Labels[i].HasDefault
               /\ (GroupMissing(cfg[r].Labels[i].Name, calls[c])
                   \/ GroupMissing(cfg[r].Labels[i].Value, calls[c])))
        => (AppliedAt(r, c) = {} /\ Cardinality(RejectedAt(r, c)) = 1)

\* C5: when a label declares a default and its capture group did not take
\* part, the line is applied and the series carries the default as the
\* label's value.
C5_DefaultLabelUsed ==
    \A r \in Rules : \A c \in CallIds :
        \A i \in 1..Len(cfg[r].Labels) :
            (/\ Finished(r, c)
             /\ Matches(cfg[r].Regex, calls[c])
             /\ Len(cfg[r].Labels) = 1
             /\ cfg[r].Labels[i].HasDefault
             /\ cfg[r].Labels[i].Name.FieldType = LabelValueLiteral
             /\ GroupMissing(cfg[r].Labels[i].Value, calls[c])
             /\ ~ValueUnresolvable(cfg[r].Value, calls[c]))
            => \E j \in AppliedAt(r, c) :
                  LET name == cfg[r].Labels[i].Name.Literal
                      labels == WriteLabels(applied[r][j])
                  IN name \in DOMAIN labels /\ labels[name] = cfg[r].Labels[i].Default

\* The source that made call c has left IngestLine
CallComplete(c) == \A s \in Sources : src[s].call # c
\* Rule r waits on an empty channel
Drained(r) == lp[r].pc = "recv" /\ regexCh[r] = <<>>
\* Call c is rejected by rule a while rule b matches and resolves it
FailsForOneOnly(a, b, c) ==
    /\ a # b
    /\ RejectedAt(a, c) # {}
    /\ Extract(cfg[b], calls[c]).go
    /\ LabelsResolvable(cfg[b], calls[c])
    /\ ~ValueUnresolvable(cfg[b].Value, calls[c])

TimesOffered(r, c) == Cardinality({i \in 1..Len(offered[r]) : offered[r][i] = c})
\* IngestLine has passed rule r for call c
PassedRule(r, c) == \A s \in Sources : src[s].call = c => src[s].pos > r

\* C7: IngestLine sends its line exactly once on the channel of every rule,
\* in declaration order: a call that has reached rule p has sent its line
\* once to each rule before p and to no rule from p on, and a call that has
\* returned has sent it once to every rule.
C7_EveryRuleOfferedOnceInOrder ==
    \A c \in CallIds : \A r \in Rules :
        TimesOffered(r, c) = IF PassedRule(r, c) THEN 1 ELSE 0

C7_Witness ==
    /\ Len(calls) = feed.calls
    /\ \A s \in Sources : src[s].pos = 0
    /\ \A c \in CallIds : \A r \in Rules : TimesOffered(r, c) = 1

\* The line a worker is busy with
InFlight(r) == IF lp[r].pc = "recv" THEN <<>> ELSE <<lp[r].call>>
\* The calls of a sequence of store writes
RECURSIVE CallsOf(_)
CallsOf(ws) == IF ws = <<>> THEN <<>> ELSE <<Head(ws).call>> \o CallsOf(Tail(ws))
\* The calls of a sequence that the rule carries through to the store
RECURSIVE Going(_, _)
Going(r, cs) ==
    IF cs = <<>> THEN <<>>
    ELSE (IF Extract(cfg[r], calls[Head(cs)]).go THEN <<Head(cs)>> ELSE <<>>)
         \o Going(r, Tail(cs))

\* C8: each worker processes its lines in the order they were put on its
\* channel, one at a time, none skipped or repeated: the lines it has
\* finished, the one it is busy with and the ones queued are, in this
\* order, the lines offered to it, and its store writes follow that order.
C8_PerRuleFifo ==
    \A r \in Rules :
        /\ offered[r] = done[r] \o InFlight(r) \o regexCh[r]
        /\ CallsOf(applied[r]) = Going(r, done[r])

C8_Witness ==
    \E r \in Rules :
        /\ Len(done[r]) = feed.calls
        /\ Len(applied[r]) = feed.calls
        /\ done[r] = offered[r]

\* The stuck worker's channel is full
Jammed(r) == stuck[r] /\ Len(regexCh[r]) = ChanCap

C10_StaleSeriesSweptBeforeExport ==
    [][/\ exported' # exported => \A mv \in exported' : ~IsStale(mv, now')
       /\ \A h \in DOMAIN metrics :
             heap[metrics[h]].timeout = 0 => h \in DOMAIN metrics']_vars

\* The store write worker r makes in this step, if it makes one
Wrote(r) == Len(applied'[r]) > Len(applied[r])
LastWrite(r) == applied'[r][Len(applied'[r])]

\* C11: whenever a rule whose operation is Subtract matches a line for a
\* Counter series, the value of the series right after that update is 0,
\* whatever the value before and whatever the amount.
C11_SubtractResetsCounter ==
    [][\A r \in Rules :
          (Wrote(r) /\ cfg[r].Value.ValueOp = ValueOpSubtract
                    /\ heap'[LastWrite(r).ptr].valueType = MetricCounter)
          => heap'[LastWrite(r).ptr].value = F(0)]_vars

\* What an operation makes of a gauge holding prev, for the amount v
GaugeResult(op, prev, v) ==
    CASE op = ValueOpAdd -> FAdd(prev, v)
      [] op = ValueOpSubtract -> FSub(prev, v)
      [] op = ValueOpEquals -> v
\* Worker r stores to the series at ptr in this step
StoresTo(r, ptr) == lp'[r] # lp[r] /\ ptr \in DOMAIN heap /\ heap'[ptr] # heap[ptr]

\* C12: every update applied to a Gauge series leaves previous + v for Add,
\* previous - v for Subtract and v for Set, v being the resolved value; the
\* result is not clamped.  The series a match creates starts from the value
\* of the new metricValue; an update stores on top of the value the series
\* holds.
C12_GaugeArithmetic ==
    [][\A r \in Rules :
          LET op == cfg[r].Value.ValueOp
              v == lp[r].value
          IN /\ (lp[r].pc = "create" /\ Wrote(r) /\ lp[r].metric.valueType = MetricGauge)
                  => heap'[LastWrite(r).ptr].value = GaugeResult(op, lp[r].metric.value, v)
             /\ (lp[r].pc \in {"update", "write"} /\ StoresTo(r, lp[r].ptr)
                   /\ heap[lp[r].ptr].valueType = MetricGauge)
                  => heap'[lp[r].ptr].value = GaugeResult(op, heap[lp[r].ptr].value, v)
             /\ (lp[r].pc = "clamp" /\ StoresTo(r, lp[r].ptr)
                   /\ heap[lp[r].ptr].valueType = MetricGauge)
                  => heap'[lp[r].ptr].value = heap[lp[r].ptr].value]_vars

\* The rules that have written the series of identity h, and the writes of
\* rule r to it
WritersOf(h) == {w[1] : w \in Writes(h)}
WritesBy(r, h) == {i \in 1..Len(applied[r]) : applied[r][i].hash = h}
\* A counter rule whose value is "+1"
CountsMatches(rule) ==
    /\ rule.Type = MetricCounter
    /\ rule.Value = VdLiteral(ValueOpAdd, 1)

NoRuleMatches(c) ==
    \A r \in Rules : cfg[r].Regex # "" /\ cfg[r].Regex \notin calls[c].pats

\* C14: a line that matches no rule's pattern creates no series, changes no
\* series and counts no rejection: no rule writes the store or rejects for
\* it; the call adds one to ingestedLines, as every call does.
C14_NonMatchingLineOnlyCounted ==
    /\ ingestedLines = Len(calls)
    /\ \A c \in CallIds :
          NoRuleMatches(c) =>
              \A r \in Rules : AppliedAt(r, c) = {} /\ RejectedAt(r, c) = {}

C14_Witness ==
    \E c \in CallIds :
        /\ NoRuleMatches(c)
        /\ CallComplete(c)
        /\ \A r \in Rules : Finished(r, c)
        /\ ingestedLines = Len(calls)
        /\ metrics = << >>

\* The writes made so far, as (rule, index) pairs
AllWrites == {w \in Rules \X (1..feed.calls) : w[2] <= Len(applied[w[1]])}
WriteOf(w) == applied[w[1]][w[2]]
WriteName(w) == heap[w.ptr].desc.fqName

\* C15: two matches, of one rule or of two, that produce the same metric
\* name and the same label mapping get the same identity and update one
\* series: the identity depends on the name and the label mapping only, not
\* on the order the labels are declared in, the help text, the kind or the
\* rule.
C15_SameNameAndLabelsSameIdentity ==
    \A w1 \in AllWrites : \A w2 \in AllWrites :
        (/\ WriteName(WriteOf(w1)) = WriteName(WriteOf(w2))
         /\ WriteLabels(WriteOf(w1)) = WriteLabels(WriteOf(w2)))
        => WriteOf(w1).hash = WriteOf(w2).hash

\* C16: two distinct (metric name, label mapping) pairs get different
\* identities, so that a store entry never stands for two of them.
C16_DistinctSeriesDistinctIdentity ==
    \A w1 \in AllWrites : \A w2 \in AllWrites :
        (\/ WriteName(WriteOf(w1)) # WriteName(WriteOf(w2))
         \/ WriteLabels(WriteOf(w1)) # WriteLabels(WriteOf(w2)))
        => WriteOf(w1).hash # WriteOf(w2).hash

C16_Witness ==
    \E w1 \in AllWrites : \E w2 \in AllWrites :
        /\ WriteName(WriteOf(w1)) = "a" /\ WriteLabels(WriteOf(w1))["code"] = "bc"
        /\ WriteName(WriteOf(w2)) = "ab" /\ WriteLabels(WriteOf(w2))["code"] = "c"
        /\ metrics[WriteOf(w1).hash] # metrics[WriteOf(w2).hash]

\* C19: the exporter sends three operational series of its own: a gauge
\* equal to the number of configured rules, a counter named
\* ingested_lines_total equal to the number of IngestLine calls made, and a
\* rejected-lines counter per reason; each under its own name.
C19_OwnSeriesExported ==
    Len(calls) > 0 =>
        /\ \E x \in OwnSeries :
              /\ x.kind = MetricGauge
              /\ x.fqName = BuildFQName(Namespace, "metric_regexes")
              /\ x.value = Len(cfg)
        /\ \E x \in OwnSeries :
              /\ x.kind = MetricCounter
              /\ x.fqName = BuildFQName(Namespace, "ingested_lines_total")
              /\ x.value = Len(calls)
        /\ \A reason \in DOMAIN rejectedLines :
              \E x \in OwnSeries :
                  /\ x.kind = MetricCounter
                  /\ x.fqName = BuildFQName(Namespace, "rejected_lines_total")
                  /\ x.labels = [reason |-> reason]
                  /\ x.value = rejectedLines[reason]

\* Call c2 was put on the channel of rule r after call c
OfferedAfter(r, c, c2) ==
    \E i, j \in 1..Len(offered[r]) : i < j /\ offered[r][i] = c /\ offered[r][j] = c2
\* Rule r counted a rejection for call c and call c2 was queued for it later
QueuedAfterRejection(r, c, c2) ==
    r \in Rules /\ RejectedAt(r, c) # {} /\ OfferedAfter(r, c, c2)
\* Rule r has counted a rejection
HasRejected(r) == r \in Rules /\ rejections[r] # <<>>
\* The worker of rule r has finished every line put on its channel so far
CaughtUp(r) == r \in Rules /\ done[r] = offered[r]

\* C20: a rejected line never stops processing: the process does not
\* crash, and a worker that has rejected a line goes on to finish every
\* line put on its channel: from any point after a rejection it gets
\* through all that was queued for it up to then.
C20_RejectionNeverStopsWorker ==
    /\ []~crashed
    /\ \A r \in 1..2 : HasRejected(r) ~> CaughtUp(r)

C20_Witness ==
    /\ ~crashed
    /\ \E r \in Rules : \E c \in CallIds : \E c2 \in CallIds :
          QueuedAfterRejection(r, c, c2) /\ Finished(r, c2)

\* The defects of a rule as the configuration file states it
EmptyHelp(raw) == raw.help = ""
PatternDoesNotCompile(raw) ==
    (IF raw.regex.kind = "map" THEN raw.regex.expr ELSE raw.regex.text) \notin Compilable
UnknownFlag(raw) ==
    raw.regex.kind = "map" /\ \E i \in 1..Len(raw.regex.flags) : raw.regex.flags[i] \notin KnownFlags
NoOperationPrefix(raw) == raw.value = <<>> \/ Head(raw.value) \notin {"+", "-", "="}
UnparseableLiteral(raw) ==
    /\ Len(raw.value) >= 2
    /\ raw.value[2] # "$"
    /\ ParseFloatScalar(Tail(raw.value)).err
Defective(file) ==
    \E i \in 1..Len(file) :
        \/ EmptyHelp(file[i])
        \/ PatternDoesNotCompile(file[i])
        \/ UnknownFlag(file[i])
        \/ NoOperationPrefix(file[i])
        \/ UnparseableLiteral(file[i])

\* C17: when the configuration has a load-time defect (empty help text, a
\* pattern that does not compile, an unknown regex flag, a value without
\* '+', '-' or '=' prefix, an unparseable literal), the process ends before
\* a rule worker is started, a source opened or a line ingested.
C17_DefectiveConfigNeverServes ==
    Defective(feed.file) =>
        /\ main # "run"
        /\ cfg = <<>>
        /\ ingestedLines = 0
        /\ metrics = << >>

\* C18: the example configuration of the README (counter, labels $1 and $2,
\* "value: increment", "timeout: 15m") is accepted by the loader, and its
\* rule adds 1 to the series of each line that matches.
C18_ReadmeExampleLoads ==
    (feed.file = FileReadme /\ main # "load") =>
        /\ main = "run"
        /\ Len(cfg) = 1
        /\ cfg[1].Value = VdLiteral(ValueOpAdd, 1)

\* What an operation makes of a new series, whose value is 0, for the
\* amount v
CreatedResult(op, valueType, v) ==
    CASE op = ValueOpAdd -> FAdd(F(0), v)
      [] op = ValueOpEquals -> v
      [] op = ValueOpSubtract ->
           IF valueType = MetricCounter THEN F(0) ELSE FSub(F(0), v)

\* C21: the match that creates a series applies the rule's operation to an
\* initial value of 0: the series it publishes holds +v for Add, v for Set,
\* -v for Subtract on a gauge or untyped series and 0 for Subtract on a
\* counter.
C21_CreatingMatchAppliesOperation ==
    [][\A r \in Rules :
          (lp[r].pc = "create" /\ Wrote(r))
          => heap'[LastWrite(r).ptr].value =
                CreatedResult(cfg[r].Value.ValueOp, lp[r].metric.valueType, lp[r].value)]_vars

\* The writes that created the series of identity h, and those that updated it
CreatingWrites(h) == {w \in Writes(h) : applied[w[1]][w[2]].created}
UpdatingWrites(h) == Writes(h) \ CreatingWrites(h)
\* What the update of write w adds to the series
Delta(w) ==
    IF cfg[w[1]].Value.ValueOp = ValueOpAdd THEN applied[w[1]][w[2]].value.n
    ELSE 0 - applied[w[1]][w[2]].value.n
RECURSIVE SumDeltas(_)
SumDeltas(ws) ==
    IF ws = {} THEN 0
    ELSE LET w == CHOOSE x \in ws : TRUE
         IN Delta(w) + SumDeltas(ws \ {w})
\* The series of identity h was created once and has since been updated by
\* Add and Subtract only, on a kind that is not clamped
OnlyAddsAndSubtracts(h) ==
    /\ heap[metrics[h]].valueType # MetricCounter
    /\ Cardinality(CreatingWrites(h)) = 1
    /\ \A w \in UpdatingWrites(h) :
          /\ cfg[w[1]].Value.ValueOp \in {ValueOpAdd, ValueOpSubtract}
          /\ ~applied[w[1]][w[2]].value.nan

\* C22: when two rule workers apply Add or Subtract to one existing series
\* at the same time, neither update is lost: once nothing is in flight the
\* series holds the value it was created with combined with the delta of
\* every update made to it.
C22_NoLostUpdate ==
    Quiescent =>
        \A h \in DOMAIN metrics :
            OnlyAddsAndSubtracts(h) =>
                LET c == CHOOSE w \in CreatingWrites(h) : TRUE
                IN heap[metrics[h]].value =
                      F(applied[c[1]][c[2]].value.n + SumDeltas(UpdatingWrites(h)))

\* The calls whose line sits on the channel of rule r
Queued(r) == {regexCh[r][i] : i \in 1..Len(regexCh[r])}
\* The sources inside IngestLine, and the calls they hold
CallersInside == {s \in Sources : src[s].pos # 0}
\* The lines ingested and not yet taken by every worker: on a channel, or
\* held by a caller that has not returned
Unprocessed ==
    {c \in CallIds : \/ \E r \in Rules : c \in Queued(r)
                     \/ \E s \in CallersInside : src[s].call = c}

AllSettled ==
    \A c \in CallIds : CallComplete(c) /\ \A r \in Rules : Finished(r, c)

\* C24: with several sources and several rules there is no deadlock: while
\* every rule worker keeps taking lines off its channel, every IngestLine
\* call returns and every ingested line is processed by every rule worker;
\* whatever has been ingested, a state follows in which all of it is settled.
C24_NoDeadlock == []<>AllSettled

C24_Witness ==
    /\ AllSettled
    /\ Len(calls) = feed.calls
    /\ Len(cfg) = 3
    /\ \E r \in Rules : \E i \in 1..Len(offered[r]) : offered[r][i] # i

\* The lines the worker of rule r has taken off its channel
Dequeued(r) == Len(done[r]) + Len(InFlight(r))

\* C25: IngestLine adds one to ingestedLines once per call, before it offers
\* the line to any rule worker: the counter equals the number of calls made,
\* no line is on its way to a worker that is not counted, no worker has
\* taken more lines than were counted, and the counter never decreases.
C25_IngestedCountedBeforeOffer ==
    /\ [](/\ ingestedLines = Len(calls)
          /\ \A r \in Rules :
                /\ \A i \in 1..Len(offered[r]) : offered[r][i] <= ingestedLines
                /\ Dequeued(r) <= ingestedLines)
    /\ [][/\ ingestedLines' >= ingestedLines
          /\ ingestedLines' = ingestedLines + (Len(calls') - Len(calls))]_vars

C25_Witness ==
    /\ ingestedLines = feed.calls
    /\ \E r \in Rules : \E q \in Rules :
          Dequeued(r) = ingestedLines /\ Dequeued(q) < ingestedLines

\* C26: line processing never removes a series: whatever lines are ingested
\* (matching, non-matching or rejected), every identity present in the store
\* is still present after the next step of any source or worker.
C26_ProcessingNeverRemoves ==
    [][DOMAIN metrics \subseteq DOMAIN metrics']_vars

C26_Witness ==
    /\ Quiescent
    /\ Cardinality(DOMAIN metrics) >= 2
    /\ \E r \in Rules : \E c \in CallIds :
          /\ RejectedAt(r, c) # {}
          /\ \E q \in Rules : \E i \in 1..Len(applied[q]) : applied[q][i].call < c

\* The series the store holds for identity h
Series(h) == heap[metrics[h]]

\* C27: once a series exists for an identity, its kind and its descriptor
\* (name, help, labels) do not change for as long as it is in the store,
\* whichever worker updates it and even when another worker tries to create
\* the same identity at the same time.
C27_KindAndDescriptorFixed ==
    [][\A h \in DOMAIN metrics :
          h \in DOMAIN metrics' =>
              /\ heap'[metrics'[h]].valueType = Series(h).valueType
              /\ heap'[metrics'[h]].desc = Series(h).desc]_vars

\* A metricValue as newMetricValue and one update at least leave it: kind
\* and descriptor set, the hash that of the descriptor, a time of update
Constructed(mv) ==
    /\ mv.valueType \in {MetricUntyped, MetricGauge, MetricCounter}
    /\ mv.desc.fqName # ""
    /\ mv.hash = DescHash(mv.desc)
    /\ mv.lastUpdated # ZeroTime
\* The identities whose series becomes reachable through the store in this step
Published == {h \in DOMAIN metrics' : h \notin DOMAIN metrics \/ metrics'[h] # metrics[h]}

ClosedReasons == {<<"unparseable label">>, <<"unconvertible value">>, <<"missing capture">>}
\* The reason that goes with the failure of a line for a rule
ReasonFor(rule, line) ==
    IF ~LabelsResolvable(rule, line) THEN <<"unparseable label">>
    ELSE IF rule.Value.ValueSource = ValueSourceNamedCaptureGroup
            /\ ~NamedPresent(line, rule.Value.CaptureGroupName)
    THEN <<"missing capture">>
    ELSE <<"unconvertible value">>

\* C29: every rejection is counted under a reason of a fixed closed set:
\* 'unparseable label' when a label does not resolve, 'unconvertible value'
\* when the captured number does not parse, 'missing capture' when the named
\* value group is absent; the reason is never an error message.
C29_RejectionReasonsClosed ==
    /\ DOMAIN rejectedLines \subseteq ClosedReasons
    /\ \A r \in Rules : \A i \in 1..Len(rejections[r]) :
          rejections[r][i].reason = ReasonFor(cfg[r], calls[rejections[r][i].call])

\* Worker r takes a step on a line it has counted a rejection for or that
\* its pattern does not match
StepOnDroppedLine(r) ==
    /\ lp'[r] # lp[r]
    /\ lp[r].pc # "recv"
    /\ (RejectedAt(r, lp[r].call) # {} \/ ~Matches(cfg[r].Regex, calls[lp[r].call]))
\* Every successful update stamps its series with the current time
UpdateStampsNow ==
    \A r \in Rules : Wrote(r) => heap'[LastWrite(r).ptr].lastUpdated = now
\* The time of last update of the series of an identity does not go back
StampNeverGoesBack ==
    \A h \in DOMAIN metrics :
        h \in DOMAIN metrics' => heap'[metrics'[h]].lastUpdated >= Series(h).lastUpdated
\* A dropped line stamps no series and adds none
DroppedLineLeavesStamps ==
    \A r \in Rules :
        StepOnDroppedLine(r) =>
            /\ DOMAIN metrics' = DOMAIN metrics
            /\ \A h \in DOMAIN metrics :
                  heap'[metrics'[h]].lastUpdated = Series(h).lastUpdated

\* C30: every successful update of a series (the creating match, Add,
\* Subtract or Set) sets its lastUpdated to the current time, so that
\* lastUpdated never moves backwards, and a rejected or non-matching line
\* leaves it unchanged.
C30_LastUpdatedTracksUpdates ==
    [][UpdateStampsNow /\ StampNeverGoesBack /\ DroppedLineLeavesStamps]_vars

\* The rules whose match created the series the store holds for identity h
CreatorsOf(h) ==
    {r \in Rules : \E i \in 1..Len(applied[r]) :
                      applied[r][i].created /\ applied[r][i].ptr = metrics[h]}

\* C31: a series created by a rule carries that rule's configured timeout:
\* for every series in the store, the timeout equals the timeout of the
\* rule whose match created it (zero when the rule declares none).
C31_SeriesCarriesRuleTimeout ==
    \A h \in DOMAIN metrics :
        \E r \in CreatorsOf(h) : Series(h).timeout = cfg[r].Timeout

\* The operation of rule r is none of Add, Subtract and Set
OperationUnknown(r) ==
    cfg[r].Value.ValueOp \notin {ValueOpAdd, ValueOpSubtract, ValueOpEquals}

ValueScalarDecoded ==
    /\ conv.stage \notin {"none", "scalar"}
    /\ conv.type = "ValueDef"

\* The scalar has one of the three operation prefixes
HasOperationPrefix(cs) == cs # <<>> /\ Head(cs) \in {"+", "-", "="}

\* The scalar names a capture: a '$' follows the prefix
NamesCapture(cs) == Len(cs) >= 2 /\ cs[2] = "$"

\* The text is an integer: an optional sign and digits
IsIntegerText(cs) ==
    LET body == IF cs # <<>> /\ Head(cs) \in {"+", "-"} THEN Tail(cs) ELSE cs
    IN body # <<>> /\ \A i \in 1..Len(body) : body[i] \in {"0", "1"}

\* C33: a value specification the loader accepts has operation Add for
\* prefix '+', Subtract for '-' and Set for '=', and source
\* PositionalCapture(n) for '$' and an integer, NamedCapture(id) for '$' and
\* anything else, Literal(x) otherwise; a string without one of the three
\* prefixes, or with a literal that does not parse, is rejected with an error.
C33_ValueGrammar ==
    ValueScalarDecoded =>
        LET cs == conv.text
            after == SubSeq(cs, 3, Len(cs))
        IN /\ (~HasOperationPrefix(cs)
               \/ (~NamesCapture(cs) /\ ~IsIntegerText(Tail(cs))))
              => conv.stage = "rejected"
           /\ conv.stage \in {"loaded", "written", "reloaded"}
              => /\ HasOperationPrefix(cs)
                 /\ conv.def.ValueOp = (CASE Head(cs) = "+" -> ValueOpAdd
                                          [] Head(cs) = "-" -> ValueOpSubtract
                                          [] Head(cs) = "=" -> ValueOpEquals)
                 /\ conv.def.ValueSource =
                      (IF ~NamesCapture(cs) THEN ValueSourceLiteral
                       ELSE IF IsIntegerText(after) THEN ValueSourceCaptureGroup
                       ELSE ValueSourceNamedCaptureGroup)
                 /\ conv.def.ValueSource = ValueSourceNamedCaptureGroup
                    => conv.def.CaptureGroupName = Str(after)

\* C34: ValueDef.UnmarshalYAML returns a ValueDef or an error for every
\* string, the empty string and a lone operation character included; the
\* loader never crashes on a malformed value.
C34_ValueLoaderNeverCrashes ==
    ValueScalarDecoded => (conv.stage # "panicked" /\ ~crashed)


\* A rule of the file has no name; a rule of the file has no help text
EmptyName(raw) == raw.name = ""
HelpMissing(raw) == raw.help = ""

\* C35: a rule whose name is empty or missing is rejected at load time as a
\* configuration error, as a rule whose help text is empty is: main gets no
\* configuration from such a file and starts no collector.
C35_EmptyNameRejected ==
    (\E i \in 1..Len(feed.file) : EmptyName(feed.file[i]) \/ HelpMissing(feed.file[i]))
    => (main # "run" /\ cfg = <<>>)


\* C36: label names are unique within a rule: every series created from a
\* rule with k label specs carries exactly k labels, and no label spec's
\* value is overwritten by another spec resolving to the same name (a spec
\* with a literal name and a literal value is found in the series as
\* written).
C36_LabelNamesUnique ==
    \A h \in DOMAIN metrics : \A r \in CreatorsOf(h) :
        LET labels == Series(h).desc.constLabels
        IN /\ Cardinality(DOMAIN labels) = Len(cfg[r].Labels)
           /\ \A i \in 1..Len(cfg[r].Labels) :
                 LET d == cfg[r].Labels[i]
                 IN (d.Name.FieldType = LabelValueLiteral
                     /\ d.Value.FieldType = LabelValueLiteral)
                    => /\ d.Name.Literal \in DOMAIN labels
                       /\ labels[d.Name.Literal] = d.Value.Literal


\* The scalar under conversion was accepted and gave a positional capture
LoadedPositional ==
    /\ conv.stage \in {"loaded", "written", "reloaded"}
    /\ \/ conv.type = "ValueDef" /\ conv.def.ValueSource = ValueSourceCaptureGroup
       \/ conv.type = "LabelValueDef" /\ conv.def.FieldType = LabelValueCaptureGroup
       \/ conv.type = "config.ValueDef" /\ conv.def.FieldType = VALUE_CAPTUREGROUP

\* C37: every positional capture reference the loader accepts, in a label
\* name, a label value or a value spec, has an index of at least 1; "$0"
\* and "$-1" are not accepted as positional captures.
C37_PositionalIndexAtLeastOne ==
    LoadedPositional => conv.def.CaptureGroup >= 1


\* The definition decoded from the marshalled text is the one marshalled
RoundTrips ==
    /\ ~conv.back.err
    /\ ~conv.back.panic
    /\ conv.back.def = conv.def

\* C38: marshalling a loaded ValueDef and unmarshalling the result gives
\* back the same ValueDef (operation, source kind, literal, capture index or
\* capture name), for every ValueDef the loader can produce.
C38_ValueDefRoundTrips ==
    /\ (conv.stage \in {"unwritable", "written", "reloaded"}
        /\ conv.type \in {"ValueDef", "config.ValueDef"})
       => conv.stage # "unwritable"
    /\ (conv.stage = "reloaded" /\ conv.type \in {"ValueDef", "config.ValueDef"})
       => RoundTrips

\* C39: marshalling a loaded LabelValueDef and unmarshalling the result
\* gives back the same LabelValueDef for all three kinds: a literal, a
\* positional capture "$n" and a named capture "$name".
C39_LabelValueDefRoundTrips ==
    (conv.stage = "reloaded" /\ conv.type = "LabelValueDef") => RoundTrips


\* Worker r holds the result of ParseValueFromMatch for the line it received
HoldsValue(r) == lp[r].call # 0 /\ lp[r].pc \notin {"recv", "match", "returned"}

\* The value spec of rule r resolves on the line: a literal, or a capture
\* group that took part in the match and whose text is a number
ValueResolves(r, line) ==
    LET def == cfg[r].Value
        i == IF def.ValueSource = ValueSourceNamedCaptureGroup
             THEN GroupIndex(def.CaptureGroupName) ELSE def.CaptureGroup
    IN \/ def.ValueSource = ValueSourceLiteral
       \/ /\ def.ValueSource \in {ValueSourceCaptureGroup, ValueSourceNamedCaptureGroup}
          /\ line.g[i] \in {"1", "2", "-3"}

\* An error was returned to worker r for the call it is working on
ValueErrorReturned(r) ==
    \E k \in 1..Len(rejections[r]) : rejections[r][k].call = lp[r].call

\* C40: ParseValueFromMatch returns NaN together with an error in every
\* failure case (positional capture text that does not parse, absent named
\* group, unknown value type), and returns a result without error only when
\* the value was resolved.
C40_FailureIsNaNWithError ==
    \A r \in Rules :
        HoldsValue(r) =>
            LET resolved == ValueResolves(r, calls[lp[r].call])
            IN /\ ~resolved => (ValueErrorReturned(r) /\ lp[r].value = NaN)
               /\ ~ValueErrorReturned(r) => resolved
====
